---- MODULE Spec2Model ----
(***************************************************************************)
(* A model of the slack-prediction service (python/PREDICTION-MODULE/      *)
(* prediction.py, simple_server.py) and of the chat2sql connection code    *)
(* (improved_chat2sql_backend.py, dynamic_query_handler.py).               *)
(*                                                                         *)
(* Strings whose characters matter (endpoints) are sequences of one-       *)
(* character strings.  Slack values are integers counted in thousandths.   *)
(***************************************************************************)
EXTENDS Integers, Sequences, FiniteSets, TLC

VARIABLES
    \* normalize_endpoint(endpoint): the argument, the returned value, position
    endpoint, normalized, ne_pc,
    \* the connection retry loop: which copy of it runs, its max_retries
    \* argument, its locals retries and last_error, and what has happened so
    \* far: connect() calls made, seconds slept, the error of each failed
    \* attempt in order, the connection returned, the error raised
    rc_impl, max_retries, retries, last_error, rc_pc,
    attempts, slept, conn_errors, conn, raised,
    \* the data path of predict: the rows stored in the place and the CTS
    \* table, whether the request names each table, position, the HTTP status
    \* and the rows of the response
    place_rows, cts_rows, place_given, cts_given, pd_pc, pd_status,
    route_table_data,
    \* calculate_synthetic_route_slack: the key of this process's string hash,
    \* the two arguments in thousandths, position, and the returned value in
    \* units of 10^-7
    hash_seed, place_slack, cts_slack, cs_pc, route_slack,
    \* the prediction server: the globals of prediction.py (112-121)
    model_place_to_cts, model_combined_to_route, scaler_place, scaler_combined,
    \* the train_model calls begun so far
    trainings,
    \* the coroutine the event loop is running, and those suspended at an await
    running, suspended,
    \* the prediction_N tables of the output database
    output_db,
    \* history: a train request has returned success; a train_model call has
    \* raised after it assigned a global
    train_succeeded, train_failed_partway,
    \* chat2sql: two queries made of the same words, the SQL generated for
    \* each by one process (whose string hash key is hash_seed), position
    query_a, query_b, sql_a, sql_b, sql_pc,
    \* routing: the method, the path (its segments) and the Accept header of
    \* a request, the route function that serves it, the status of the
    \* answer, position
    req_method, req_path, req_accept_html, served_by, route_status, route_pc,
    \* /available-tables: the tables of the database (a name is the sequence
    \* of its parts between underscores), those of them that lack a required
    \* column, the rows of the table query, the detected sets, position
    db_tables, db_unsuitable, tables, complete_training_sets, at_pc,
    \* branch view: the stage values of the runs (run i is the i-th row),
    \* the pattern found for each run, the nodes and the connections of the
    \* layout, position
    runs_data, branch_patterns, nodes, connections, bv_pc,
    \* flow layout: which generator runs, the stages of each run of one
    \* user (the run named "r<n>" is the number n), the nodes and the
    \* connections made, position
    flow_generator, flow_runs, flow_nodes, flow_connections, flow_pc,
    \* two runs of the program: the string hash key each drew when it
    \* started, the arguments of the calls, the results of two calls in the
    \* first run and of one call in the second run, position
    first_run_seed, second_run_seed, call_place_slack, call_cts_slack,
    first_result, repeated_result, second_run_result, runs_pc

normVars == <<endpoint, normalized, ne_pc>>
retryVars == <<rc_impl, max_retries, retries, last_error, rc_pc,
               attempts, slept, conn_errors, conn, raised>>

dataVars == <<place_rows, cts_rows, place_given, cts_given, pd_pc, pd_status,
              route_table_data>>

synthVars == <<hash_seed, place_slack, cts_slack, cs_pc, route_slack>>

sqlVars == <<query_a, query_b, sql_a, sql_b, sql_pc>>

routeVars == <<req_method, req_path, req_accept_html, served_by, route_status, route_pc>>

tablesVars == <<db_tables, db_unsuitable, tables, complete_training_sets, at_pc>>

branchVars == <<runs_data, branch_patterns, nodes, connections, bv_pc>>

flowVars == <<flow_generator, flow_runs, flow_nodes, flow_connections, flow_pc>>

runsVars == <<first_run_seed, second_run_seed, call_place_slack, call_cts_slack, first_result, repeated_result, second_run_result, runs_pc>>

laterVars == <<sqlVars, routeVars, tablesVars, branchVars, flowVars, runsVars>>

pureVars == <<normVars, retryVars, dataVars, synthVars, laterVars>>

earlyVars == <<normVars, retryVars, dataVars, synthVars>>

globalVars == <<model_place_to_cts, model_combined_to_route, scaler_place,
                scaler_combined>>

serverVars == <<globalVars, trainings, running, suspended, output_db,
                train_succeeded, train_failed_partway>>

vars == <<pureVars, serverVars>>

(***************************************************************************)
(* Bounds of the model.                                                    *)
(***************************************************************************)
MaxLen == 5         \* longest endpoint string given to normalize_endpoint
MaxRetriesArg == 3  \* largest max_retries argument tried
MaxRows == 2        \* most rows of a table given to predict
MaxHashSeed == 3    \* string-hash keys a process can start with: 0..MaxHashSeed
MaxTrains == 2      \* most train_model calls
MaxSuspended == 1   \* most coroutines suspended at once
MaxTables == 1      \* most prediction_N tables in the output database
MaxTerms == 3       \* most words of a natural-language query
MaxSegments == 3    \* most segments of a request path
MaxDbTables == 4    \* most tables in the database
MaxRuns == 2        \* most runs (rows) of a run-status table
MaxFlowRuns == 3    \* most runs of one user

Min(a, b) == IF a <= b THEN a ELSE b
Max(a, b) == IF a >= b THEN a ELSE b

(***************************************************************************)
(* normalize_endpoint (prediction.py 127-131)                              *)
(***************************************************************************)
Chars == {"a", "b", "/"}

RECURSIVE StringsUpTo(_)
StringsUpTo(n) ==
    IF n = 0 THEN {<<>>}
    ELSE LET shorter == StringsUpTo(n - 1)
         IN  shorter \cup {Append(s, c) : s \in {t \in shorter : Len(t) = n - 1}, c \in Chars}

\* str.split('/'): the runs between separators, empty runs kept, so a string
\* with k separators has k + 1 parts.
RECURSIVE Split(_)
Split(s) ==
    IF \A i \in 1..Len(s) : s[i] # "/"
    THEN <<s>>
    ELSE LET i == CHOOSE j \in 1..Len(s) :
                     s[j] = "/" /\ \A k \in 1..(j - 1) : s[k] # "/"
         IN  <<SubSeq(s, 1, i - 1)>> \o Split(SubSeq(s, i + 1, Len(s)))

\* the same with parts[-1] alone, as a join that drops a segment would give
normalize_endpoint_last_only(e) ==
    LET parts == Split(e)
    IN  IF Len(parts) >= 2 THEN parts[Len(parts)] ELSE e

\* parts[-2] + '/' + parts[-1] if len(parts) >= 2 else endpoint
normalize_endpoint(e) ==
    LET parts == Split(e)
    IN  IF Len(parts) >= 2
        THEN parts[Len(parts) - 1] \o <<"/">> \o parts[Len(parts)]
        ELSE e

NormalizeEndpoint ==
    /\ ne_pc = "call"
    /\ normalized' = normalize_endpoint(endpoint)
    /\ ne_pc' = "return"
    /\ UNCHANGED <<endpoint, retryVars, dataVars, synthVars, serverVars, laterVars>>

(***************************************************************************)
(* The connection retry loop: get_connection_with_retry                    *)
(* (improved_chat2sql_backend.py 53-78) and DynamicQueryHandler.           *)
(* _get_connection (dynamic_query_handler.py 36-58), the same loop twice.  *)
(***************************************************************************)
RetryImpls == {"get_connection_with_retry", "_get_connection"}

\* retry_delay=2 and time.sleep(2)
RetryDelay == 2

\* what psycopg2.connect can raise
ConnErrors == {"timeout", "refused", "auth"}

NoError == "None"

\* the loop without its retries += 1
NextRetriesForgotten(r) == r

\* retries += 1
NextRetries(r) == r + 1

\* while retries < max_retries
LoopCondition == retries < max_retries

\* psycopg2.connect(...) succeeds: return conn
ConnectSucceeds ==
    /\ rc_pc = "loop"
    /\ LoopCondition
    /\ attempts' = attempts + 1
    /\ conn' = attempts + 1
    /\ rc_pc' = "returned"
    /\ UNCHANGED <<rc_impl, max_retries, retries, last_error, slept,
                   conn_errors, raised, normVars, dataVars, synthVars, serverVars, laterVars>>

\* psycopg2.connect(...) raises e: last_error = e; retries += 1; time.sleep
ConnectFails ==
    /\ rc_pc = "loop"
    /\ LoopCondition
    /\ \E e \in ConnErrors :
          /\ last_error' = e
          /\ conn_errors' = Append(conn_errors, e)
    /\ attempts' = attempts + 1
    /\ retries' = NextRetries(retries)
    /\ slept' = slept + RetryDelay
    /\ UNCHANGED <<rc_impl, max_retries, rc_pc, conn, raised, normVars, dataVars, synthVars, serverVars, laterVars>>

\* the loop is left without a connection: raise last_error
RaiseLastError ==
    /\ rc_pc = "loop"
    /\ ~LoopCondition
    /\ raised' = last_error
    /\ rc_pc' = "raised"
    /\ UNCHANGED <<rc_impl, max_retries, retries, last_error, attempts,
                   slept, conn_errors, conn, normVars, dataVars, synthVars, serverVars, laterVars>>


(***************************************************************************)
(* The data path of predict (prediction.py 648-1045): the two tables are   *)
(* read, a table the request does not name is generated from the other,    *)
(* the rows are joined on the normalized endpoint and the response rows    *)
(* are built.  A row of a table is its endpoint and its slack; the feature *)
(* columns, which every table here has, are left out.                      *)
(***************************************************************************)
\* endpoints stored in the tables: two paths with the same last two segments,
\* and a name without a separator
DataEndpoints == {<<"a", "/", "b", "/", "c">>, <<"x", "/", "b", "/", "c">>, <<"d">>}

\* slack values stored in the tables, in thousandths
DataSlacks == {-640, -610}

\* what np.random.normal adds to a reference slack, in thousandths
NoiseSamples == {-50, 80}

TableRows == [endpoint : DataEndpoints, slack : DataSlacks]

RECURSIVE SeqsUpTo(_, _)
SeqsUpTo(S, n) ==
    IF n = 0 THEN {<<>>}
    ELSE LET shorter == SeqsUpTo(S, n - 1)
         IN  shorter \cup {Append(s, x) : s \in {t \in shorter : Len(t) = n - 1}, x \in S}

\* generate_synthetic_data writing the slack column of its argument instead
\* of a copy: the caller's table is the generated one afterwards
generate_synthetic_data_in_place(reference_data, noise) ==
    LET synthetic_data ==
            [i \in DOMAIN reference_data |->
                [reference_data[i] EXCEPT !.slack = @ + noise[i]]]
    IN  [synthetic |-> synthetic_data, reference |-> synthetic_data]

\* generate_synthetic_data (528-583): a deep copy of the reference whose slack
\* column is the reference slack plus noise; the reference is left as it was.
\* Returns the copy and the reference as the caller holds it afterwards.
generate_synthetic_data(reference_data, noise) ==
    LET synthetic_data ==
            [i \in DOMAIN reference_data |->
                [reference_data[i] EXCEPT !.slack = @ + noise[i]]]
    IN  [synthetic |-> synthetic_data, reference |-> reference_data]

\* lines 654-677: place_data and cts_data as the handler holds them
fetch_or_generate(place_tbl, cts_tbl, p_given, c_given, noise) ==
    IF p_given /\ c_given
    THEN [place_data |-> place_tbl, cts_data |-> cts_tbl]
    ELSE IF p_given
    THEN LET g == generate_synthetic_data(place_tbl, noise)
         IN  [place_data |-> g.reference, cts_data |-> g.synthetic]
    ELSE LET g == generate_synthetic_data(cts_tbl, noise)
         IN  [place_data |-> g.synthetic, cts_data |-> g.reference]

\* dict(zip(keys, slacks)): a later pair replaces an earlier one with the
\* same key
slack_dict(keys, slacks) ==
    [k \in {keys[i] : i \in DOMAIN keys} |->
        LET last == CHOOSE i \in DOMAIN keys :
                        /\ keys[i] = k
                        /\ \A j \in DOMAIN keys : keys[j] = k => j <= i
        IN  slacks[last]]

\* data['endpoint'], data['slack'], and the endpoints normalized one by one
endpoint_column(data) == [i \in DOMAIN data |-> data[i].endpoint]
slack_column(data) == [i \in DOMAIN data |-> data[i].slack]
normalized_endpoints(data) ==
    [i \in DOMAIN data |-> normalize_endpoint(data[i].endpoint)]

\* data['normalized_endpoint'] = data['endpoint'].apply(normalize_endpoint)
with_normalized_endpoint(data) ==
    [i \in DOMAIN data |->
        [endpoint |-> data[i].endpoint, slack |-> data[i].slack,
         normalized_endpoint |-> normalize_endpoint(data[i].endpoint)]]

\* set(place['normalized_endpoint']).intersection(cts['normalized_endpoint'])
common_endpoints_of(place_data, cts_data) ==
    {place_data[i].normalized_endpoint : i \in DOMAIN place_data}
        \cap {cts_data[i].normalized_endpoint : i \in DOMAIN cts_data}

\* data[data['normalized_endpoint'].isin(common_endpoints)]
isin_common(data, common) ==
    LET Keep(row) == row.normalized_endpoint \in common
    IN  SelectSeq(data, Keep)

\* drop_duplicates left out: every row is kept
keep_duplicates(data) == data

\* drop_duplicates(subset=['normalized_endpoint'], keep='first')
RECURSIVE drop_duplicates(_)
drop_duplicates(data) ==
    IF data = <<>> THEN <<>>
    ELSE LET front == SubSeq(data, 1, Len(data) - 1)
             last == data[Len(data)]
         IN  IF \E j \in DOMAIN front :
                    front[j].normalized_endpoint = last.normalized_endpoint
             THEN drop_duplicates(front)
             ELSE Append(drop_duplicates(front), last)

\* place_filtered.merge(cts_filtered, on='normalized_endpoint', how='inner',
\* suffixes=('_place', '_cts')): the left rows in order, each with every
\* right row of the same key
RECURSIVE merge_inner(_, _)
merge_inner(left, right) ==
    IF left = <<>> THEN <<>>
    ELSE LET l == Head(left)
             Same(r) == r.normalized_endpoint = l.normalized_endpoint
             matches == SelectSeq(right, Same)
         IN  [i \in DOMAIN matches |->
                 [normalized_endpoint |-> l.normalized_endpoint,
                  endpoint_place |-> l.endpoint, slack_place |-> l.slack,
                  endpoint_cts |-> matches[i].endpoint,
                  slack_cts |-> matches[i].slack]]
             \o merge_inner(Tail(left), right)

\* lines 745-794
merged_data_of(place_data, cts_data) ==
    LET p == with_normalized_endpoint(place_data)
        c == with_normalized_endpoint(cts_data)
        common == common_endpoints_of(p, c)
    IN  merge_inner(drop_duplicates(isin_common(p, common)),
                    drop_duplicates(isin_common(c, common)))

\* lines 995-1036: one response row of a merged row.  The reported slack is
\* looked up in the dictionaries of a table the request names, by the row's
\* endpoint and then by its normalized endpoint, and is the merged row's
\* slack otherwise.  computed_from is the pair of slack values the route
\* prediction of the row is computed from (lines 960-961 and 977-978).
route_table_row(m, place_is_real, cts_is_real, originals) ==
    LET ep == m.endpoint_place
        nep == m.normalized_endpoint
        original_place_slacks == originals.place
        original_place_slacks_normalized == originals.place_normalized
        original_cts_slacks == originals.cts
        original_cts_slacks_normalized == originals.cts_normalized
        place_slack_val ==
            IF place_is_real /\ (ep \in DOMAIN original_place_slacks
                                 \/ nep \in DOMAIN original_place_slacks_normalized)
            THEN IF ep \in DOMAIN original_place_slacks
                 THEN original_place_slacks[ep]
                 ELSE original_place_slacks_normalized[nep]
            ELSE m.slack_place
        cts_slack_val ==
            IF cts_is_real /\ (ep \in DOMAIN original_cts_slacks
                               \/ nep \in DOMAIN original_cts_slacks_normalized)
            THEN IF ep \in DOMAIN original_cts_slacks
                 THEN original_cts_slacks[ep]
                 ELSE original_cts_slacks_normalized[nep]
            ELSE m.slack_cts
    IN  [endpoint |-> ep, place_slack |-> place_slack_val,
         cts_slack |-> cts_slack_val,
         computed_from |-> <<m.slack_place, m.slack_cts>>]

\* lines 648-1045 for tables that can be read and have the columns
predict_rows(place_tbl, cts_tbl, p_given, c_given, noise) ==
    LET d == fetch_or_generate(place_tbl, cts_tbl, p_given, c_given, noise)
        place_is_real == p_given
        cts_is_real == c_given
        empty == [k \in {} |-> 0]
        keep_place == place_is_real /\ Len(d.place_data) > 0
        keep_cts == cts_is_real /\ Len(d.cts_data) > 0
        originals ==
            [place |-> IF keep_place
                       THEN slack_dict(endpoint_column(d.place_data),
                                       slack_column(d.place_data))
                       ELSE empty,
             place_normalized |-> IF keep_place
                       THEN slack_dict(normalized_endpoints(d.place_data),
                                       slack_column(d.place_data))
                       ELSE empty,
             cts |-> IF keep_cts
                     THEN slack_dict(endpoint_column(d.cts_data),
                                     slack_column(d.cts_data))
                     ELSE empty,
             cts_normalized |-> IF keep_cts
                     THEN slack_dict(normalized_endpoints(d.cts_data),
                                     slack_column(d.cts_data))
                     ELSE empty]
        merged_data == merged_data_of(d.place_data, d.cts_data)
    IN  [i \in DOMAIN merged_data |->
            route_table_row(merged_data[i], place_is_real, cts_is_real,
                            originals)]

\* predict on the stored tables: 400 when the tables share no endpoint
\* (lines 754-759), the rows otherwise
PredictData ==
    /\ pd_pc = "call"
    /\ \E noise \in [1..MaxRows -> NoiseSamples] :
          LET rows == predict_rows(place_rows, cts_rows, place_given,
                                   cts_given, noise)
          IN  /\ route_table_data' = rows
              /\ pd_status' = IF rows = <<>> THEN 400 ELSE 200
    /\ pd_pc' = "return"
    /\ UNCHANGED <<place_rows, cts_rows, place_given, cts_given, normVars,
                   retryVars, synthVars, serverVars, laterVars>>

(***************************************************************************)
(* calculate_synthetic_route_slack (prediction.py 453-526; the same        *)
(* function in simple_server.py 48-97).  Arguments are in thousandths, the *)
(* result in units of 10^-7 (thousandths times 10000), in which every      *)
(* product of the function is a whole number.                              *)
(***************************************************************************)
\* slack values given to the function, in thousandths, on both sides of
\* each threshold it tests
SlackSamples == {-3000, -640, -610, -350, -100, 0, 40, 120}

Abs(x) == IF x < 0 THEN -x ELSE x

\* hash() of a str: a function of the string and of the key the process drew
\* when it started (PYTHONHASHSEED), of either sign.  which tells the two
\* strings hashed: 1 for f"{place_slack:.6f}_{cts_slack:.6f}", 2 for
\* f"{place_slack}_{cts_slack}".
hash(seed, which, p, c) ==
    ((seed * 7919 + which * 104729 + p * 31 + c * 17) % 200003) - 100001

\* a bound written as the percentage its comment names:
\* upper_bound = max_slack * 1.012
upper_bound_percent(max_slack) == max_slack * 10120

\* upper_bound = max_slack + 0.012
upper_bound(max_slack) == (max_slack + 12) * 10000

\* lower_bound = min_slack - 0.025
lower_bound(min_slack) == (min_slack - 25) * 10000

\* critical_weight, in hundredths (avg_weight is the rest of 100)
critical_weight(min_slack) ==
    IF Abs(min_slack) > 500 THEN 92
    ELSE IF Abs(min_slack) > 300 THEN 89
    ELSE 85

\* optimization_factor, in thousandths
optimization_factor(slack_difference) ==
    IF slack_difference > 100 THEN 25
    ELSE IF slack_difference > 50 THEN 15
    ELSE 8

calculate_synthetic_route_slack(seed, p, c) ==
    LET min_slack == Min(p, c)
        max_slack == Max(p, c)
        slack_difference == Abs(p - c)
        cw == critical_weight(min_slack)
        aw == 100 - cw
        \* min_slack * critical_weight + avg_slack * avg_weight, avg_slack
        \* being (place_slack + cts_slack) / 2
        base_route_slack == (min_slack * cw * 2 + (p + c) * aw) * 50
        \* hash(...) % 1000 / 1000.0
        slack_hash == hash(seed, 1, p, c) % 1000
        \* optimization_factor * (0.4 + 0.6 * slack_hash)
        optimization_applied ==
            optimization_factor(slack_difference) * (4000 + 6 * slack_hash)
        \* abs(hash(...)) % 100
        variation_seed == Abs(hash(seed, 2, p, c)) % 100
        \* (variation_seed / 100.0 - 0.5) * 0.008
        variation == (variation_seed - 50) * 800
        unbounded == base_route_slack + optimization_applied + variation
    IN  \* route_slack = max(route_slack, lower_bound), then
        \* route_slack = min(route_slack, upper_bound)
        Min(Max(unbounded, lower_bound(min_slack)), upper_bound(max_slack))

CalculateSyntheticRouteSlack ==
    /\ cs_pc = "call"
    /\ route_slack' = calculate_synthetic_route_slack(hash_seed, place_slack,
                                                      cts_slack)
    /\ cs_pc' = "return"
    /\ UNCHANGED <<hash_seed, place_slack, cts_slack, normVars, retryVars,
                   dataVars, serverVars, laterVars>>

(***************************************************************************)
(* The prediction server (prediction.py).  uvicorn runs the application on *)
(* one event loop (2452-2454) and every handler is an async def, so a      *)
(* handler runs from its first statement until it suspends at an await or  *)
(* returns, and no other handler runs in between.  Of the awaits in the    *)
(* handlers only request.json() (325) waits for input: train_model and     *)
(* setup_database are coroutines without an await of their own, and        *)
(* awaiting them runs them to their end.                                   *)
(***************************************************************************)
\* a global before any training: None.  Otherwise the train_model call that
\* assigned it, and whether fit / fit_transform has completed on it.
None == [training |-> 0, fitted |-> FALSE]

\* a table name that is not given (None or the empty string)
NoTable == <<>>

\* table names of predict requests, as strings of characters
PredictTables == {NoTable, <<"p", "l">>, <<"c", "t">>, <<"R", "o", "u", "t", "E">>}

\* table names of train requests
TrainPlaceTables == {NoTable, <<"p", "l">>}
TrainCtsTables == {NoTable, <<"c", "t">>}
TrainRouteTables == {NoTable, <<"r", "o", "u", "t", "e">>}

\* str.lower
lower(s) ==
    [i \in DOMAIN s |-> CASE s[i] = "R" -> "r"
                          [] s[i] = "O" -> "o"
                          [] s[i] = "U" -> "u"
                          [] s[i] = "T" -> "t"
                          [] s[i] = "E" -> "e"
                          [] OTHER -> s[i]]

\* sub in s
Contains(s, sub) ==
    \E i \in 0..(Len(s) - Len(sub)) : SubSeq(s, i + 1, i + Len(sub)) = sub

\* the test without lower(): 'route' in request.place_table
is_route_table_case_sensitive(table) ==
    table # NoTable /\ Contains(table, <<"r", "o", "u", "t", "e">>)

\* request.place_table and 'route' in request.place_table.lower() (598-599)
is_route_table(table) ==
    table # NoTable /\ Contains(lower(table), <<"r", "o", "u", "t", "e">>)

\* the globals a prediction is computed with
NoneUsed == [scaler_place |-> None, model_place_to_cts |-> None,
             scaler_combined |-> None, model_combined_to_route |-> None]

\* f"prediction_{next_num}"
prediction_table(next_num) == <<"prediction", next_num>>

\* a coroutine of a handler: its position, its request, its locals and,
\* at pc "respond", the response it returns
NoCoroutine ==
    [handler |-> "none", pc |-> "none", resumed |-> FALSE,
     place_table |-> NoTable, cts_table |-> NoTable, route_table |-> NoTable,
     train_request |-> <<>>, training |-> 0,
     tables_read |-> FALSE, model_consulted |-> FALSE,
     used |-> NoneUsed, overlapped |-> FALSE, rows |-> 0,
     prediction_table_name |-> NoTable, db_storage_success |-> FALSE,
     stored_in |-> NoTable, failed |-> FALSE, status_code |-> 0, detail |-> ""]

Coroutine(handler, pc) == [NoCoroutine EXCEPT !.handler = handler, !.pc = pc]

\* the coroutine moved to another statement
At(c, pc) == [c EXCEPT !.pc = pc, !.resumed = FALSE]

\* return / raise HTTPException: the response of the handler
Respond(c, status_code, detail, failed) ==
    [c EXCEPT !.pc = "respond", !.resumed = FALSE, !.status_code = status_code,
              !.detail = detail, !.failed = failed]

\* the awaits with model.fit awaited as well (run off the loop)
SuspendsAtWithAwaitedFit(handler, pc) ==
    pc \in {"read_body", "fit_place", "fit_combined"}

\* the statements at which a coroutine gives up the event loop:
\* body = await request.json() (325)
SuspendsAt(handler, pc) ==
    handler = "train_model_post" /\ pc = "read_body"

\* the running coroutine is at pc and not waiting there
CanStep(pc) ==
    /\ running.pc = pc
    /\ SuspendsAt(running.handler, pc) => running.resumed

\* train_request = TrainRequest(...); result = await train_model(train_request)
call_train_model(c, place_table, cts_table, route_table) ==
    [At(c, "train_fetch") EXCEPT
        !.train_request = <<place_table, cts_table, route_table>>,
        !.training = trainings + 1]

\* GET /api/train (200-246)
ApiTrain ==
    /\ running = NoCoroutine
    /\ \E place_table \in TrainPlaceTables, cts_table \in TrainCtsTables,
          route_table \in TrainRouteTables :
          LET c == [Coroutine("api_train", "start") EXCEPT
                        !.place_table = place_table, !.cts_table = cts_table,
                        !.route_table = route_table]
          IN  IF ~(place_table # NoTable /\ cts_table # NoTable)
              THEN /\ running' = Respond(c, 400, "Missing required parameters", TRUE)
                   /\ UNCHANGED trainings
              ELSE /\ trainings < MaxTrains
                   /\ running' = call_train_model(c, place_table, cts_table,
                                     IF route_table = NoTable THEN cts_table
                                     ELSE route_table)
                   /\ trainings' = trainings + 1
    /\ UNCHANGED <<globalVars, suspended, output_db, train_succeeded,
                   train_failed_partway, pureVars>>

\* GET /slack-prediction/train (250-311)
SlackPredictionTrain ==
    /\ running = NoCoroutine
    /\ \E place_table \in TrainPlaceTables, cts_table \in TrainCtsTables,
          route_table \in TrainRouteTables :
          LET c == [Coroutine("slack_prediction_train", "start") EXCEPT
                        !.place_table = place_table, !.cts_table = cts_table,
                        !.route_table = route_table]
          IN  IF place_table # NoTable /\ cts_table # NoTable
                 /\ route_table # NoTable
              THEN /\ trainings < MaxTrains
                   /\ running' = call_train_model(c, place_table, cts_table,
                                                  route_table)
                   /\ trainings' = trainings + 1
              ELSE /\ running' = Respond(c, 400, "All three tables are required for training", TRUE)
                   /\ UNCHANGED trainings
    /\ UNCHANGED <<globalVars, suspended, output_db, train_succeeded,
                   train_failed_partway, pureVars>>

\* POST /slack-prediction/train up to the await of the body (313-325)
TrainModelPost ==
    /\ running = NoCoroutine
    /\ Len(suspended) < MaxSuspended
    /\ running' = Coroutine("train_model_post", "read_body")
    /\ UNCHANGED <<globalVars, trainings, suspended, output_db,
                   train_succeeded, train_failed_partway, pureVars>>

\* a coroutine reaches an await that waits: the loop is free
Suspend ==
    /\ running # NoCoroutine
    /\ SuspendsAt(running.handler, running.pc)
    /\ ~running.resumed
    /\ suspended' = Append(suspended, running)
    /\ running' = NoCoroutine
    /\ UNCHANGED <<globalVars, trainings, output_db, train_succeeded,
                   train_failed_partway, pureVars>>

\* what a suspended coroutine waits for has arrived and the loop is free
Resume ==
    /\ running = NoCoroutine
    /\ \E i \in DOMAIN suspended :
          /\ running' = [suspended[i] EXCEPT !.resumed = TRUE]
          /\ suspended' = SubSeq(suspended, 1, i - 1)
                              \o SubSeq(suspended, i + 1, Len(suspended))
    /\ UNCHANGED <<globalVars, trainings, output_db, train_succeeded,
                   train_failed_partway, pureVars>>

\* POST /slack-prediction/train from the parsed body on (325-381)
TrainModelPostBody ==
    /\ running.handler = "train_model_post"
    /\ CanStep("read_body")
    /\ \/ /\ running' = Respond(running, 400, "Invalid JSON body", TRUE)
          /\ UNCHANGED trainings
       \/ \E place_table \in TrainPlaceTables, cts_table \in TrainCtsTables,
             route_table \in TrainRouteTables :
             LET c == [running EXCEPT
                           !.place_table = place_table, !.cts_table = cts_table,
                           !.route_table = route_table]
             IN  IF ~(place_table # NoTable /\ cts_table # NoTable
                      /\ route_table # NoTable)
                 THEN /\ running' = Respond(c, 400, "All three tables are required for training", TRUE)
                      /\ UNCHANGED trainings
                 ELSE /\ trainings < MaxTrains
                      /\ running' = call_train_model(c, place_table, cts_table,
                                                     route_table)
                      /\ trainings' = trainings + 1
    /\ UNCHANGED <<globalVars, suspended, output_db, train_succeeded,
                   train_failed_partway, pureVars>>

\* train_model raises: except Exception -> HTTPException 500 (2276-2278),
\* which the entry point answers with 500.  Nothing is assigned back: the
\* globals stay as the call has left them.
TrainingError(c) == Respond(c, 500, "Training error", TRUE)

\* train_model 2005-2072: the request is checked, the three tables are read,
\* their columns are checked and they are reduced to the common endpoints
TrainFetch ==
    /\ CanStep("train_fetch")
    /\ \E raises \in BOOLEAN :
          running' = IF raises THEN TrainingError(running)
                     ELSE At(running, "scaler_place")
    /\ UNCHANGED <<globalVars, trainings, suspended, output_db,
                   train_succeeded, train_failed_partway, pureVars>>

\* 2074-2099: scaler_place = StandardScaler(), fit_transform, train_test_split
TrainScalerPlace ==
    /\ CanStep("scaler_place")
    /\ scaler_place' = [training |-> running.training, fitted |-> TRUE]
    /\ \E raises \in BOOLEAN :
          IF raises
          THEN /\ running' = TrainingError(running)
               /\ train_failed_partway' = TRUE
          ELSE /\ running' = At(running, "model_place")
               /\ UNCHANGED train_failed_partway
    /\ UNCHANGED <<model_place_to_cts, scaler_combined,
                   model_combined_to_route, trainings, suspended, output_db,
                   train_succeeded, pureVars>>

\* 2102-2127: model_place_to_cts = Sequential([...]), compile
TrainModelPlace ==
    /\ CanStep("model_place")
    /\ model_place_to_cts' = [training |-> running.training, fitted |-> FALSE]
    /\ running' = At(running, "fit_place")
    /\ UNCHANGED <<scaler_place, scaler_combined, model_combined_to_route,
                   trainings, suspended, output_db, train_succeeded,
                   train_failed_partway, pureVars>>

\* 2130-2143: model_place_to_cts.fit(...), evaluation
TrainFitPlace ==
    /\ CanStep("fit_place")
    /\ \E raises \in BOOLEAN :
          IF raises
          THEN /\ running' = TrainingError(running)
               /\ train_failed_partway' = TRUE
               /\ UNCHANGED model_place_to_cts
          ELSE /\ model_place_to_cts' = [model_place_to_cts EXCEPT !.fitted = TRUE]
               /\ running' = At(running, "scaler_combined")
               /\ UNCHANGED train_failed_partway
    /\ UNCHANGED <<scaler_place, scaler_combined, model_combined_to_route,
                   trainings, suspended, output_db, train_succeeded, pureVars>>

\* 2145-2176: scaler_combined = StandardScaler(), fit_transform,
\* train_test_split
TrainScalerCombined ==
    /\ CanStep("scaler_combined")
    /\ scaler_combined' = [training |-> running.training, fitted |-> TRUE]
    /\ \E raises \in BOOLEAN :
          IF raises
          THEN /\ running' = TrainingError(running)
               /\ train_failed_partway' = TRUE
          ELSE /\ running' = At(running, "model_combined")
               /\ UNCHANGED train_failed_partway
    /\ UNCHANGED <<scaler_place, model_place_to_cts, model_combined_to_route,
                   trainings, suspended, output_db, train_succeeded, pureVars>>

\* 2179-2208: model_combined_to_route = Sequential([...]), compile
TrainModelCombined ==
    /\ CanStep("model_combined")
    /\ model_combined_to_route' = [training |-> running.training,
                                   fitted |-> FALSE]
    /\ running' = At(running, "fit_combined")
    /\ UNCHANGED <<scaler_place, model_place_to_cts, scaler_combined,
                   trainings, suspended, output_db, train_succeeded,
                   train_failed_partway, pureVars>>

\* 2211-2275: model_combined_to_route.fit(...), evaluation, the response
TrainFitCombined ==
    /\ CanStep("fit_combined")
    /\ \E raises \in BOOLEAN :
          IF raises
          THEN /\ running' = TrainingError(running)
               /\ train_failed_partway' = TRUE
               /\ UNCHANGED <<model_combined_to_route, train_succeeded>>
          ELSE /\ model_combined_to_route' =
                      [model_combined_to_route EXCEPT !.fitted = TRUE]
               /\ running' = Respond(running, 200, "success", FALSE)
               /\ train_succeeded' = TRUE
               /\ UNCHANGED train_failed_partway
    /\ UNCHANGED <<scaler_place, model_place_to_cts, scaler_combined,
                   trainings, suspended, output_db, pureVars>>

\* POST /slack-prediction/predict, the checks of the request (585-647)
Predict ==
    /\ running = NoCoroutine
    /\ \E place_table \in PredictTables, cts_table \in PredictTables :
          LET c == [Coroutine("predict", "start") EXCEPT
                        !.place_table = place_table, !.cts_table = cts_table]
              consulted == [c EXCEPT !.model_consulted = TRUE]
          IN  running' =
                IF place_table = NoTable /\ cts_table = NoTable
                THEN Respond(c, 400, "At least one table (place_table or cts_table) is required for prediction", TRUE)
                ELSE IF is_route_table(place_table) \/ is_route_table(cts_table)
                THEN Respond(c, 400, "Cannot predict routes using route tables as input", TRUE)
                ELSE IF place_table # NoTable /\ cts_table # NoTable
                        /\ place_table = cts_table
                THEN Respond(c, 400, "Place table and CTS table must be different", TRUE)
                ELSE IF model_place_to_cts = None
                THEN Respond(consulted, 400, "Models not trained yet. Please train first.", TRUE)
                ELSE At(consulted, "fetch")
    /\ UNCHANGED <<globalVars, trainings, suspended, output_db,
                   train_succeeded, train_failed_partway, pureVars>>

\* 648-797: the tables are read (or generated), their columns checked, and
\* they are joined on the endpoints they share
PredictFetch ==
    /\ CanStep("fetch")
    /\ LET c == [running EXCEPT !.tables_read = TRUE]
       IN  \/ running' = Respond(c, 500, "Error fetching input data", TRUE)
           \/ running' = Respond(c, 400, "Place data must contain all required features", TRUE)
           \/ running' = Respond(c, 400, "No common endpoints found between place and CTS data", TRUE)
           \/ \E rows \in 1..MaxRows :
                 running' = [At(c, "compute") EXCEPT !.rows = rows]
    /\ UNCHANGED <<globalVars, trainings, suspended, output_db,
                   train_succeeded, train_failed_partway, pureVars>>

\* a train_model call has begun and not returned
TrainInProgress ==
    \E i \in DOMAIN suspended :
        suspended[i].training # 0 /\ suspended[i].pc # "respond"

\* 799-1047: scaler_place.transform, model_place_to_cts.predict, the route
\* predictions (with scaler_combined and model_combined_to_route when both
\* are set), and the rows of the response, as many as are built before a
\* row raises
PredictCompute ==
    /\ CanStep("compute")
    /\ LET c == [running EXCEPT
                     !.used = [scaler_place |-> scaler_place,
                               model_place_to_cts |-> model_place_to_cts,
                               scaler_combined |-> scaler_combined,
                               model_combined_to_route |-> model_combined_to_route],
                     !.overlapped = TrainInProgress]
       IN  \/ running' = Respond(c, 500, "Error making predictions", TRUE)
           \/ \E built \in 0..running.rows :
                 running' = [At(c, "store") EXCEPT !.rows = built]
    /\ UNCHANGED <<globalVars, trainings, suspended, output_db,
                   train_succeeded, train_failed_partway, pureVars>>

\* the columns of result_df (1029-1035, 1045)
result_columns ==
    {"beginpoint", "endpoint", "place_slack", "cts_slack",
     "predicted_route_slack"}

\* the columns the INSERT reads from a row of result_df (1141-1157)
insert_columns ==
    {"beginpoint", "endpoint", "place_slack", "cts_slack",
     "predicted_route_slack", "fanout", "netcount", "netdelay", "invdelay",
     "bufdelay", "seqdelay", "skew", "combodelay", "wirelength", "slack"}

\* max_num over the prediction_N tables (1099-1106)
max_num ==
    IF output_db = {} THEN 0
    ELSE CHOOSE n \in {t.table_name[2] : t \in output_db} :
             \A t \in output_db : t.table_name[2] <= n

\* return {...} (1214-1223)
PredictResponse(c) ==
    [Respond(c, 200, "success", ~c.db_storage_success) EXCEPT
        !.stored_in = IF c.prediction_table_name # NoTable
                      THEN c.prediction_table_name
                      ELSE <<"storage failed">>]

\* 1077-1223: the results are stored in a new table prediction_N inside one
\* transaction, and the response is built
PredictStore ==
    /\ CanStep("store")
    /\ \/ \* get_output_db_connection or the first query raises
          /\ running' = PredictResponse(running)
          /\ UNCHANGED output_db
       \/ LET named == [running EXCEPT
                           !.prediction_table_name = prediction_table(max_num + 1)]
          IN  \/ \* CREATE TABLE or a later statement raises: rollback
                 /\ running' = PredictResponse(named)
                 /\ UNCHANGED output_db
              \/ \* row['fanout'] of the first row raises KeyError: rollback
                 /\ running.rows > 0
                 /\ ~(insert_columns \subseteq result_columns)
                 /\ running' = PredictResponse(named)
                 /\ UNCHANGED output_db
              \/ \* every row is inserted and counted: commit
                 /\ running.rows = 0 \/ insert_columns \subseteq result_columns
                 /\ Cardinality(output_db) < MaxTables
                 /\ output_db' = output_db \cup
                        {[table_name |-> named.prediction_table_name,
                          records |-> running.rows]}
                 /\ running' = PredictResponse(
                                   [named EXCEPT !.db_storage_success = TRUE])
    /\ UNCHANGED <<globalVars, trainings, suspended, train_succeeded,
                   train_failed_partway, pureVars>>

\* the handlers below keep no state of their own: each is one step from the
\* request to the response.  raises: an exception inside the handler's try.

\* GET /results (1496-1529)
GetAllResults ==
    /\ running = NoCoroutine
    /\ \E raises \in BOOLEAN :
          running' = IF raises
                     THEN Respond(Coroutine("get_all_results", "start"), 500, "str(e)", TRUE)
                     ELSE Respond(Coroutine("get_all_results", "start"), 200, "results", FALSE)
    /\ UNCHANGED <<globalVars, trainings, suspended, output_db,
                   train_succeeded, train_failed_partway, pureVars>>

\* GET /results/{result_id} (1531-1555); 404 is the answer for an id that
\* has no row
GetResultById ==
    /\ running = NoCoroutine
    /\ \/ running' = Respond(Coroutine("get_result_by_id", "start"), 500, "str(e)", TRUE)
       \/ running' = Respond(Coroutine("get_result_by_id", "start"), 404, "not found", FALSE)
       \/ running' = Respond(Coroutine("get_result_by_id", "start"), 200, "row", FALSE)
    /\ UNCHANGED <<globalVars, trainings, suspended, output_db,
                   train_succeeded, train_failed_partway, pureVars>>

\* POST /results/filter (1557-1612)
FilterResults ==
    /\ running = NoCoroutine
    /\ \E raises \in BOOLEAN :
          running' = IF raises
                     THEN Respond(Coroutine("filter_results", "start"), 500, "str(e)", TRUE)
                     ELSE Respond(Coroutine("filter_results", "start"), 200, "results", FALSE)
    /\ UNCHANGED <<globalVars, trainings, suspended, output_db,
                   train_succeeded, train_failed_partway, pureVars>>

\* GET /results/stats (1614-1660)
GetResultsStatistics ==
    /\ running = NoCoroutine
    /\ \E raises \in BOOLEAN :
          running' = IF raises
                     THEN Respond(Coroutine("get_results_statistics", "start"), 500, "str(e)", TRUE)
                     ELSE Respond(Coroutine("get_results_statistics", "start"), 200, "statistics", FALSE)
    /\ UNCHANGED <<globalVars, trainings, suspended, output_db,
                   train_succeeded, train_failed_partway, pureVars>>

\* GET /results/download and its aliases (1662-1777)
DownloadResults ==
    /\ running = NoCoroutine
    /\ \E raises \in BOOLEAN :
          running' = IF raises
                     THEN Respond(Coroutine("download_results", "start"), 500, "str(e)", TRUE)
                     ELSE Respond(Coroutine("download_results", "start"), 200, "file", FALSE)
    /\ UNCHANGED <<globalVars, trainings, suspended, output_db,
                   train_succeeded, train_failed_partway, pureVars>>

\* GET /available-tables (1853-2002)
GetAvailableTables ==
    /\ running = NoCoroutine
    /\ \E raises \in BOOLEAN :
          running' = IF raises
                     THEN Respond(Coroutine("get_available_tables", "start"), 500, "Error fetching available tables: str(e)", TRUE)
                     ELSE Respond(Coroutine("get_available_tables", "start"), 200, "success", FALSE)
    /\ UNCHANGED <<globalVars, trainings, suspended, output_db,
                   train_succeeded, train_failed_partway, pureVars>>

\* GET /setup-database (2347-2409): the except branch returns a dict, which
\* is sent with the status of a returned value, 200
SetupDatabase ==
    /\ running = NoCoroutine
    /\ \E raises \in BOOLEAN :
          running' = IF raises
                     THEN Respond(Coroutine("setup_database", "start"), 200, "Error setting up database: str(e)", TRUE)
                     ELSE Respond(Coroutine("setup_database", "start"), 200, "Database setup completed successfully", FALSE)
    /\ UNCHANGED <<globalVars, trainings, suspended, output_db,
                   train_succeeded, train_failed_partway, pureVars>>

\* POST /chat2sql/execute (improved_chat2sql_backend.py 169-221), a handler
\* of the chat2sql application, which shares no state with the others
ExecuteQueryEndpoint ==
    /\ running = NoCoroutine
    /\ \/ running' = Respond(Coroutine("execute_query_endpoint", "start"), 400, "Query parameter is required", TRUE)
       \/ running' = Respond(Coroutine("execute_query_endpoint", "start"), 500, "str(e)", TRUE)
       \/ running' = Respond(Coroutine("execute_query_endpoint", "start"), 200, "data", FALSE)
    /\ UNCHANGED <<globalVars, trainings, suspended, output_db,
                   train_succeeded, train_failed_partway, pureVars>>

\* the response of the running handler is sent and the loop is free
Send ==
    /\ running.pc = "respond"
    /\ running' = NoCoroutine
    /\ UNCHANGED <<globalVars, trainings, suspended, output_db,
                   train_succeeded, train_failed_partway, pureVars>>

(***************************************************************************)
(* SQL generation of chat2sql (consistent_query_handler.py,                *)
(* improved_chat2sql_backend.py 107-143).  A query is the sequence of its  *)
(* whitespace-separated terms.  A generated statement is the list of the   *)
(* selected columns, the WHERE clause and the rest of the statement.       *)
(***************************************************************************)
\* terms of the queries
QueryTerms == {"show", "Place,", "placement", "cts", "route", "wns", "predict"}

\* re.sub(r'[^\w\s]', '', term) of the lowered term
clean_term(term) == IF term = "Place," THEN "place" ELSE term

\* self.metric_reverse_map (15-23, 35-40), as far as the terms go
metric_reverse_map ==
    [variation \in {"place", "placement", "cts", "route", "wns"} |->
        IF variation = "placement" THEN "place" ELSE variation]

\* METRIC_COLUMNS without design and stage (26-30, 72)
METRIC_COLUMNS ==
    [metric \in {"place", "cts", "route"} |->
        CASE metric = "place" -> <<"place_setup_WNS", "place_setup_TNS",
                                   "place_hold_WNS", "place_hold_TNS">>
          [] metric = "cts" -> <<"cts_setup_WNS", "cts_setup_TNS",
                                 "cts_hold_WNS", "cts_hold_TNS">>
          [] metric = "route" -> <<"route_setup_WNS", "route_setup_TNS",
                                   "route_hold_WNS", "route_hold_TNS">>]

\* hash(key) & 7, the slot of a str in the table of a small set: a function
\* of the string and of the key the process drew when it started
set_slot(seed, key) ==
    LET code == CASE key = "place" -> 1 [] key = "cts" -> 5
                  [] key = "route" -> 2 [] OTHER -> 7
    IN  (code * (seed + 1)) % 8

\* the table of an empty set: eight free slots
empty_set == [slot \in 0..7 |-> ""]

\* set.add(key): the key takes the first free slot from its own on
set_add(seed, table, key) ==
    IF \E slot \in 0..7 : table[slot] = key THEN table
    ELSE LET home == set_slot(seed, key)
             probe == CHOOSE n \in 0..7 :
                          /\ table[(home + n) % 8] = ""
                          /\ \A k \in 0..(n - 1) : table[(home + k) % 8] # ""
         IN  [table EXCEPT ![(home + probe) % 8] = key]

\* list(found_metrics): the keys in the order of their slots
RECURSIVE set_to_list(_, _)
set_to_list(table, slot) ==
    IF slot > 7 THEN <<>>
    ELSE (IF table[slot] = "" THEN <<>> ELSE <<table[slot]>>)
             \o set_to_list(table, slot + 1)

\* the loop of extract_metrics over the terms (48-52)
RECURSIVE found_metrics(_, _)
found_metrics(seed, terms) ==
    IF terms = <<>> THEN empty_set
    ELSE LET before == found_metrics(seed, SubSeq(terms, 1, Len(terms) - 1))
             term == clean_term(terms[Len(terms)])
         IN  IF term \in DOMAIN metric_reverse_map
             THEN set_add(seed, before, metric_reverse_map[term])
             ELSE before

\* extract_metrics (42-55)
extract_metrics(seed, query_text) ==
    set_to_list(found_metrics(seed, query_text), 0)

\* the columns of the metrics, in the order of the metrics (66-73)
RECURSIVE metric_columns(_)
metric_columns(metrics) ==
    IF metrics = <<>> THEN <<>>
    ELSE (IF Head(metrics) \in DOMAIN METRIC_COLUMNS
          THEN METRIC_COLUMNS[Head(metrics)] ELSE <<>>)
             \o metric_columns(Tail(metrics))

\* SELECT * FROM qor_metrics LIMIT 50; (63, 77)
select_all == [columns |-> <<"*">>, where |-> "", rest |-> " LIMIT 50;"]

\* the WHERE clause (83-94)
where_clause(metrics) ==
    LET has(metric) == \E i \in DOMAIN metrics : metrics[i] = metric
    IN  IF has("place") /\ has("cts") /\ ~has("route")
        THEN " WHERE stage IN ('place', 'cts')"
        ELSE IF has("place") /\ has("route") /\ ~has("cts")
        THEN " WHERE stage IN ('place', 'route')"
        ELSE IF has("cts") /\ has("route") /\ ~has("place")
        THEN " WHERE stage IN ('cts', 'route')"
        ELSE IF has("place") /\ ~has("cts") /\ ~has("route")
        THEN " WHERE stage = 'place'"
        ELSE IF has("cts") /\ ~has("place") /\ ~has("route")
        THEN " WHERE stage = 'cts'"
        ELSE IF has("route") /\ ~has("place") /\ ~has("cts")
        THEN " WHERE stage = 'route'"
        ELSE ""

\* generate_consistent_sql (57-100)
generate_consistent_sql(seed, query_text) ==
    LET metrics == extract_metrics(seed, query_text)
        columns == <<"design", "stage">> \o metric_columns(metrics)
    IN  IF metrics = <<>> THEN select_all
        ELSE IF columns = <<"design", "stage">> THEN select_all
        ELSE [columns |-> columns, where |-> where_clause(metrics),
              rest |-> " ORDER BY design, stage LIMIT 100;"]

\* get_query_type (102-113), as far as the terms go
get_query_type(query_text) ==
    IF \E i \in DOMAIN query_text : query_text[i] = "predict"
    THEN "prediction" ELSE "data_retrieval"

\* process_natural_language_query (improved_chat2sql_backend.py 107-143) for
\* a query that is not an SQL statement itself
process_natural_language_query(seed, query_text) ==
    IF get_query_type(query_text) = "prediction"
    THEN LET metrics == extract_metrics(seed, query_text)
         IN  [columns |-> <<"design", "stage">> \o
                  (IF metrics # <<>> /\ metrics # <<"wns">>
                   THEN <<"place_setup_WNS", "place_hold_WNS",
                          "cts_setup_WNS", "cts_hold_WNS",
                          "route_setup_WNS", "route_hold_WNS">>
                   ELSE <<"*">>),
              where |-> "", rest |-> " ORDER BY design, stage LIMIT 100;"]
    ELSE generate_consistent_sql(seed, query_text)

\* the orders the terms of a query can be written in
Reorderings(terms) ==
    {[i \in DOMAIN terms |-> terms[p[i]]] :
        p \in {q \in [DOMAIN terms -> DOMAIN terms] :
                  \A i, j \in DOMAIN terms : q[i] = q[j] => i = j}}

\* the first of the two queries is answered
ProcessFirstQuery ==
    /\ sql_pc = "first"
    /\ sql_a' = process_natural_language_query(hash_seed, query_a)
    /\ sql_pc' = "second"
    /\ UNCHANGED <<query_a, query_b, sql_b, earlyVars, serverVars, routeVars, tablesVars, branchVars, flowVars, runsVars>>

\* the second of the two queries is answered
ProcessSecondQuery ==
    /\ sql_pc = "second"
    /\ sql_b' = process_natural_language_query(hash_seed, query_b)
    /\ sql_pc' = "return"
    /\ UNCHANGED <<query_a, query_b, sql_a, earlyVars, serverVars, routeVars, tablesVars, branchVars, flowVars, runsVars>>

SqlNext == ProcessFirstQuery \/ ProcessSecondQuery

InitSql ==
    /\ endpoint = <<>> /\ normalized = <<>> /\ ne_pc = "idle"
    /\ rc_impl = "None" /\ max_retries = 0 /\ retries = 0
    /\ last_error = NoError /\ rc_pc = "idle" /\ attempts = 0 /\ slept = 0
    /\ conn_errors = <<>> /\ conn = 0 /\ raised = NoError
    /\ place_rows = <<>> /\ cts_rows = <<>> /\ place_given = FALSE
    /\ cts_given = FALSE /\ pd_pc = "idle" /\ pd_status = 0
    /\ route_table_data = <<>>
    /\ hash_seed \in 0..MaxHashSeed
    /\ place_slack = 0 /\ cts_slack = 0 /\ cs_pc = "idle"
    /\ route_slack = 0
    /\ model_place_to_cts = None /\ model_combined_to_route = None
    /\ scaler_place = None /\ scaler_combined = None
    /\ trainings = 0 /\ running = NoCoroutine /\ suspended = <<>>
    /\ output_db = {} /\ train_succeeded = FALSE
    /\ train_failed_partway = FALSE
    /\ query_a \in SeqsUpTo(QueryTerms, MaxTerms)
    /\ query_b \in Reorderings(query_a)
    /\ sql_a = <<>> /\ sql_b = <<>>
    /\ sql_pc = "first"
    /\ req_method = "GET" /\ req_path = <<>> /\ req_accept_html = FALSE
    /\ served_by = "None" /\ route_status = 0 /\ route_pc = "idle"
    /\ db_tables = {} /\ db_unsuitable = {} /\ tables = <<>>
    /\ complete_training_sets = <<>> /\ at_pc = "idle"
    /\ runs_data = <<>> /\ branch_patterns = <<>> /\ nodes = <<>>
    /\ connections = <<>> /\ bv_pc = "idle"
    /\ flow_generator = "None" /\ flow_runs = <<>> /\ flow_nodes = <<>>
    /\ flow_connections = <<>> /\ flow_pc = "idle"
    /\ first_run_seed = 0 /\ second_run_seed = 0
    /\ call_place_slack = 0 /\ call_cts_slack = 0
    /\ first_result = 0 /\ repeated_result = 0 /\ second_run_result = 0
    /\ runs_pc = "idle"

SpecSql == InitSql /\ [][SqlNext]_vars

(***************************************************************************)
(* The routes of app (prediction.py), in the order in which the decorators *)
(* register them.  A path is the sequence of its segments; the segment of  *)
(* a path parameter is written in braces.  The router hands a request to   *)
(* the first route whose path and method both match; a path parameter      *)
(* matches any one segment, and its conversion to the annotated type is    *)
(* done after the route is chosen.                                         *)
(***************************************************************************)
Route(method, path, function) ==
    [method |-> method, path |-> path, endpoint |-> function]

\* stacked decorators register from the innermost one out (1662-1664)
routes ==
    << Route("GET", <<>>, "root"),
       Route("GET", <<"slack-prediction">>, "slack_prediction"),
       Route("GET", <<"health">>, "health_check"),
       Route("GET", <<"api", "train">>, "api_train"),
       Route("GET", <<"slack-prediction", "train">>, "slack_prediction_train"),
       Route("POST", <<"slack-prediction", "train">>, "train_model_post"),
       Route("POST", <<"slack-prediction", "predict">>, "predict"),
       Route("GET", <<"slack-prediction", "results">>, "slack_prediction_results"),
       Route("GET", <<"slack-prediction", "results", "{action}">>,
             "slack_prediction_results_actions"),
       Route("GET", <<"slackinfo">>, "slack_info"),
       Route("GET", <<"info">>, "get_info"),
       Route("GET", <<"results">>, "get_all_results"),
       Route("GET", <<"results", "{result_id}">>, "get_result_by_id"),
       Route("POST", <<"results", "filter">>, "filter_results"),
       Route("GET", <<"results", "stats">>, "get_results_statistics"),
       Route("GET", <<"slack-prediction", "results", "download_results">>,
             "download_results"),
       Route("GET", <<"slack-prediction", "results", "download">>,
             "download_results"),
       Route("GET", <<"results", "download">>, "download_results"),
       Route("GET", <<"api-docs">>, "api_docs"),
       Route("GET", <<"test">>, "test_endpoint"),
       Route("GET", <<"available-tables">>, "get_available_tables"),
       Route("GET", <<"slack-prediction", "diagnostic">>, "diagnostic_endpoint"),
       Route("GET", <<"slack-prediction", "test">>, "api_tester"),
       Route("GET", <<"setup-database">>, "setup_database") >>

\* the segments of the request paths
Segments ==
    {"results", "slack-prediction", "download", "download_results", "stats",
     "filter", "7", "train"}

IsParameter(segment) == segment \in {"{action}", "{result_id}"}

\* the path of a route matches the path of a request
path_matches(pattern, path) ==
    /\ Len(pattern) = Len(path)
    /\ \A k \in DOMAIN pattern :
          IsParameter(pattern[k]) \/ pattern[k] = path[k]

\* the route that handles the request: the first that matches in path and
\* method; 0 when there is none
matching_route(table, method, path) ==
    LET full == {i \in DOMAIN table :
                    /\ path_matches(table[i].path, path)
                    /\ table[i].method = method}
    IN  IF full = {} THEN 0
        ELSE CHOOSE i \in full : \A j \in full : i <= j

\* some route matches in path, none in path and method
method_not_allowed(table, method, path) ==
    /\ matching_route(table, method, path) = 0
    /\ \E i \in DOMAIN table : path_matches(table[i].path, path)

\* int(result_id) succeeds (1532)
is_int(segment) == segment = "7"

\* the status with which the chosen route function answers, as far as the
\* request decides it: 422 for a path parameter that is no int (1532), a
\* redirect from the browser's download URL (1239-1249); 200 stands for
\* every answer of the function's own body
endpoint_status(route, path, accept_html) ==
    IF route.endpoint = "get_result_by_id" /\ ~is_int(path[2]) THEN 422
    ELSE IF /\ route.endpoint = "slack_prediction_results_actions"
            /\ path[3] \in {"download", "download_results"}
            /\ accept_html
    THEN 307
    ELSE 200

\* the router chooses the route
Dispatch ==
    /\ route_pc = "request"
    /\ LET i == matching_route(routes, req_method, req_path)
       IN  IF i # 0
           THEN /\ served_by' = routes[i].endpoint
                /\ route_status' = 0
                /\ route_pc' = "endpoint"
           ELSE /\ served_by' = "None"
                /\ route_status' =
                       IF method_not_allowed(routes, req_method, req_path)
                       THEN 405 ELSE 404
                /\ route_pc' = "respond"
    /\ UNCHANGED <<req_method, req_path, req_accept_html, earlyVars,
                   serverVars, sqlVars, tablesVars, branchVars, flowVars, runsVars>>

\* the chosen route function answers
RunEndpoint ==
    /\ route_pc = "endpoint"
    /\ route_status' =
           endpoint_status(routes[matching_route(routes, req_method, req_path)],
                           req_path, req_accept_html)
    /\ route_pc' = "respond"
    /\ UNCHANGED <<req_method, req_path, req_accept_html, served_by,
                   earlyVars, serverVars, sqlVars, tablesVars, branchVars, flowVars, runsVars>>

RouteNext == Dispatch \/ RunEndpoint

InitRoute ==
    /\ endpoint = <<>> /\ normalized = <<>> /\ ne_pc = "idle"
    /\ rc_impl = "None" /\ max_retries = 0 /\ retries = 0
    /\ last_error = NoError /\ rc_pc = "idle" /\ attempts = 0 /\ slept = 0
    /\ conn_errors = <<>> /\ conn = 0 /\ raised = NoError
    /\ place_rows = <<>> /\ cts_rows = <<>> /\ place_given = FALSE
    /\ cts_given = FALSE /\ pd_pc = "idle" /\ pd_status = 0
    /\ route_table_data = <<>>
    /\ hash_seed = 0 /\ place_slack = 0 /\ cts_slack = 0 /\ cs_pc = "idle"
    /\ route_slack = 0
    /\ model_place_to_cts = None /\ model_combined_to_route = None
    /\ scaler_place = None /\ scaler_combined = None
    /\ trainings = 0 /\ running = NoCoroutine /\ suspended = <<>>
    /\ output_db = {} /\ train_succeeded = FALSE
    /\ train_failed_partway = FALSE
    /\ req_method \in {"GET", "POST"}
    /\ req_path \in SeqsUpTo(Segments, MaxSegments)
    /\ req_accept_html \in BOOLEAN
    /\ served_by = "None" /\ route_status = 0
    /\ route_pc = "request"
    /\ query_a = <<>> /\ query_b = <<>> /\ sql_a = <<>> /\ sql_b = <<>>
    /\ sql_pc = "idle"
    /\ db_tables = {} /\ db_unsuitable = {} /\ tables = <<>>
    /\ complete_training_sets = <<>> /\ at_pc = "idle"
    /\ runs_data = <<>> /\ branch_patterns = <<>> /\ nodes = <<>>
    /\ connections = <<>> /\ bv_pc = "idle"
    /\ flow_generator = "None" /\ flow_runs = <<>> /\ flow_nodes = <<>>
    /\ flow_connections = <<>> /\ flow_pc = "idle"
    /\ first_run_seed = 0 /\ second_run_seed = 0
    /\ call_place_slack = 0 /\ call_cts_slack = 0
    /\ first_result = 0 /\ repeated_result = 0 /\ second_run_result = 0
    /\ runs_pc = "idle"

SpecRoute == InitRoute /\ [][RouteNext]_vars

(***************************************************************************)
(* get_available_tables (prediction.py 1853-2002).  A table name is the    *)
(* sequence of its parts, table_name.split('_').  No part of TableParts    *)
(* begins with another, so the order of the names as strings is the order  *)
(* of their part sequences, and a keyword occurs in a suffix exactly when  *)
(* it is one of its parts.                                                 *)
(***************************************************************************)
TableParts == <<"csv", "cts", "old", "place", "reg", "route">>

\* the table names a database is made of
TableNames ==
    { <<"reg", "place", "csv">>, <<"reg", "cts", "csv">>,
      <<"reg", "route", "csv">>, <<"reg", "old", "place", "csv">>,
      <<"reg", "old", "cts", "csv">>, <<"old", "place", "csv">>,
      <<"old", "cts", "csv">>, <<"old", "route", "csv">> }

part_rank(part) == CHOOSE i \in DOMAIN TableParts : TableParts[i] = part

\* a < b as strings
RECURSIVE name_less(_, _)
name_less(a, b) ==
    IF a = <<>> THEN b # <<>>
    ELSE IF b = <<>> THEN FALSE
    ELSE IF Head(a) = Head(b) THEN name_less(Tail(a), Tail(b))
    ELSE part_rank(Head(a)) < part_rank(Head(b))

\* ORDER BY t.table_name (1877)
RECURSIVE order_by_table_name(_)
order_by_table_name(names) ==
    IF names = {} THEN <<>>
    ELSE LET first == CHOOSE n \in names :
                          \A o \in names \ {n} : name_less(n, o)
         IN  <<first>> \o order_by_table_name(names \ {first})

\* one element of tables (1884-1910)
table_info(name, unsuitable) ==
    [table_name |-> name, suitable_for_training |-> name \notin unsuitable]

\* the entries appended to table_groups for one table (1922-1937)
group_entries(table_name) ==
    [i \in 1..(Len(table_name) - 1) |->
        [prefix |-> SubSeq(table_name, 1, i),
         table_name |-> table_name,
         suffix |-> SubSeq(table_name, i + 1, Len(table_name))]]

\* the entries of all suitable tables, in the order they are appended
RECURSIVE all_group_entries(_)
all_group_entries(suitable_tables) ==
    IF suitable_tables = <<>> THEN <<>>
    ELSE group_entries(Head(suitable_tables).table_name)
             \o all_group_entries(Tail(suitable_tables))

\* the keys of table_groups, in the order they are inserted (1932-1933)
RECURSIVE group_prefixes(_)
group_prefixes(entries) ==
    IF entries = <<>> THEN <<>>
    ELSE LET before == group_prefixes(SubSeq(entries, 1, Len(entries) - 1))
             prefix == entries[Len(entries)].prefix
         IN  IF \E i \in DOMAIN before : before[i] = prefix
             THEN before ELSE Append(before, prefix)

\* table_groups[prefix]
table_group(entries, prefix) ==
    SelectSeq(entries, LAMBDA e : e.prefix = prefix)

\* keyword in t["suffix"].lower() (1944-1946)
keyword_in(keyword, suffix) ==
    \E i \in DOMAIN suffix : suffix[i] = keyword

\* the complete set of a group, if it is one (1944-1960)
training_set_of(prefix, group_tables) ==
    LET place_tables ==
            SelectSeq(group_tables, LAMBDA t : keyword_in("place", t.suffix))
        cts_tables ==
            SelectSeq(group_tables, LAMBDA t : keyword_in("cts", t.suffix))
        route_tables ==
            SelectSeq(group_tables, LAMBDA t : keyword_in("route", t.suffix))
    IN  IF place_tables # <<>> /\ cts_tables # <<>> /\ route_tables # <<>>
        THEN << [group_name |-> prefix,
                 place_table |-> place_tables[1].table_name,
                 cts_table |-> cts_tables[1].table_name,
                 route_table |-> route_tables[1].table_name] >>
        ELSE <<>>

\* the loop over table_groups.items() (1940-1960)
RECURSIVE detect_training_sets(_, _)
detect_training_sets(entries, prefixes) ==
    IF prefixes = <<>> THEN <<>>
    ELSE training_set_of(Head(prefixes), table_group(entries, Head(prefixes)))
             \o detect_training_sets(entries, Tail(prefixes))

\* the table query and the loop over its rows (1866-1910)
FetchTableList ==
    /\ at_pc = "query"
    /\ LET names == order_by_table_name(db_tables)
       IN  tables' = [i \in DOMAIN names |-> table_info(names[i], db_unsuitable)]
    /\ at_pc' = "group"
    /\ UNCHANGED <<db_tables, db_unsuitable, complete_training_sets,
                   earlyVars, serverVars, sqlVars, routeVars, branchVars, flowVars, runsVars>>

\* grouping and detection of the complete sets (1912-1960)
DetectTrainingSets ==
    /\ at_pc = "group"
    /\ LET suitable_tables ==
               SelectSeq(tables, LAMBDA t : t.suitable_for_training)
           entries == all_group_entries(suitable_tables)
       IN  complete_training_sets' =
               detect_training_sets(entries, group_prefixes(entries))
    /\ at_pc' = "return"
    /\ UNCHANGED <<db_tables, db_unsuitable, tables, earlyVars,
                   serverVars, sqlVars, routeVars, branchVars, flowVars, runsVars>>

TablesNext == FetchTableList \/ DetectTrainingSets

InitTables ==
    /\ endpoint = <<>> /\ normalized = <<>> /\ ne_pc = "idle"
    /\ rc_impl = "None" /\ max_retries = 0 /\ retries = 0
    /\ last_error = NoError /\ rc_pc = "idle" /\ attempts = 0 /\ slept = 0
    /\ conn_errors = <<>> /\ conn = 0 /\ raised = NoError
    /\ place_rows = <<>> /\ cts_rows = <<>> /\ place_given = FALSE
    /\ cts_given = FALSE /\ pd_pc = "idle" /\ pd_status = 0
    /\ route_table_data = <<>>
    /\ hash_seed = 0 /\ place_slack = 0 /\ cts_slack = 0 /\ cs_pc = "idle"
    /\ route_slack = 0
    /\ model_place_to_cts = None /\ model_combined_to_route = None
    /\ scaler_place = None /\ scaler_combined = None
    /\ trainings = 0 /\ running = NoCoroutine /\ suspended = <<>>
    /\ output_db = {} /\ train_succeeded = FALSE
    /\ train_failed_partway = FALSE
    /\ db_tables \in {d \in SUBSET TableNames : Cardinality(d) <= MaxDbTables}
    /\ db_unsuitable \in {u \in SUBSET db_tables : Cardinality(u) <= 1}
    /\ tables = <<>> /\ complete_training_sets = <<>>
    /\ at_pc = "query"
    /\ query_a = <<>> /\ query_b = <<>> /\ sql_a = <<>> /\ sql_b = <<>>
    /\ sql_pc = "idle"
    /\ req_method = "GET" /\ req_path = <<>> /\ req_accept_html = FALSE
    /\ served_by = "None" /\ route_status = 0 /\ route_pc = "idle"
    /\ runs_data = <<>> /\ branch_patterns = <<>> /\ nodes = <<>>
    /\ connections = <<>> /\ bv_pc = "idle"
    /\ flow_generator = "None" /\ flow_runs = <<>> /\ flow_nodes = <<>>
    /\ flow_connections = <<>> /\ flow_pc = "idle"
    /\ first_run_seed = 0 /\ second_run_seed = 0
    /\ call_place_slack = 0 /\ call_cts_slack = 0
    /\ first_result = 0 /\ repeated_result = 0 /\ second_run_result = 0
    /\ runs_pc = "idle"

SpecTables == InitTables /\ [][TablesNext]_vars

(***************************************************************************)
(* SimpleBranchAnalyzer (simple_branch_analyzer.py).  runs_data[i][s] is   *)
(* the stripped value of stage column s in the i-th row; the rows have     *)
(* distinct run names, so a run is named by its position in sorted_runs.   *)
(* The id of a node, f"{run_name}_{stage}", is the pair <<run, stage       *)
(* column>>.                                                               *)
(***************************************************************************)
stage_columns == <<"floorplan", "place", "cts">>

\* the values of a stage; "" is an empty cell
StageValues == {"", "a", "b", "c"}

\* what a stage is copied from: the first earlier run, and in it the first
\* stage, that holds the same value (111-133)
copy_info(data, run, stage) ==
    LET sources == {src \in (1..(run - 1)) \X DOMAIN stage_columns :
                       /\ data[src[1]][src[2]] # ""
                       /\ data[run][stage] = data[src[1]][src[2]]}
        first == CHOOSE src \in sources :
                     \A other \in sources :
                         \/ src[1] < other[1]
                         \/ src[1] = other[1] /\ src[2] <= other[2]
    IN  [source_run |-> first[1], source_stage |-> first[2],
         value |-> data[run][stage], stage_index |-> stage]

\* the keys of copied_stages (107-133)
copied_stage_columns(data, run) ==
    {stage \in DOMAIN stage_columns :
        /\ data[run][stage] # ""
        /\ \E p \in 1..(run - 1), ps \in DOMAIN stage_columns :
              data[p][ps] # "" /\ data[run][stage] = data[p][ps]}

\* new_stages with the copied stages left in
new_stages_with_copied(data, run) ==
    LET columns == SelectSeq([s \in DOMAIN stage_columns |-> s],
                             LAMBDA s : data[run][s] # "")
    IN  [k \in DOMAIN columns |->
            [stage |-> columns[k], value |-> data[run][columns[k]],
             stage_index |-> columns[k]]]

\* new_stages: the non-empty stages that are not copied (150-157)
new_stages(data, run) ==
    LET columns == SelectSeq([s \in DOMAIN stage_columns |-> s],
                             LAMBDA s : /\ data[run][s] # ""
                                        /\ s \notin copied_stage_columns(data, run))
    IN  [k \in DOMAIN columns |->
            [stage |-> columns[k], value |-> data[run][columns[k]],
             stage_index |-> columns[k]]]

\* the copied stage with the lowest index
first_copied_stage(data, run) ==
    LET copied == copied_stage_columns(data, run)
    IN  copy_info(data, run, CHOOSE s \in copied : \A o \in copied : s <= o)

\* last_copied_stage: the copied stage with the highest index (159-165)
last_copied_stage(data, run) ==
    LET copied == copied_stage_columns(data, run)
    IN  copy_info(data, run, CHOOSE s \in copied : \A o \in copied : s >= o)

\* no last_copied_stage
NoCopiedStage ==
    [source_run |-> 0, source_stage |-> 0, value |-> "", stage_index |-> 0]

\* branch_patterns[run] (97-173)
branch_pattern(data, run) ==
    IF run = 1
    THEN [type |-> "first_run", display_all |-> TRUE, copied_stages |-> {},
          new_stages |-> <<>>, last_copied_stage |-> NoCopiedStage]
    ELSE IF copied_stage_columns(data, run) = {}
    THEN [type |-> "independent_run", display_all |-> TRUE,
          copied_stages |-> {}, new_stages |-> <<>>,
          last_copied_stage |-> NoCopiedStage]
    ELSE [type |-> "branching_run", display_all |-> FALSE,
          copied_stages |-> {copy_info(data, run, s) :
                                s \in copied_stage_columns(data, run)},
          new_stages |-> new_stages(data, run),
          last_copied_stage |-> last_copied_stage(data, run)]

\* a node of the layout (229-252, 261-283)
stage_node(run, stage, value, is_branch) ==
    [id |-> <<run, stage>>, label |-> value, run |-> run, stage |-> stage,
     stage_index |-> stage, value |-> value, is_branch |-> is_branch]

\* the nodes of one run (220-283)
run_nodes(data, pattern, run) ==
    IF pattern.display_all
    THEN LET columns == SelectSeq([s \in DOMAIN stage_columns |-> s],
                                  LAMBDA s : data[run][s] # "")
         IN  [k \in DOMAIN columns |->
                 stage_node(run, columns[k], data[run][columns[k]],
                            pattern.type = "branching_run")]
    ELSE [k \in DOMAIN pattern.new_stages |->
             stage_node(run, pattern.new_stages[k].stage,
                        pattern.new_stages[k].value, TRUE)]

\* the loop over sorted_runs that makes the nodes (220-283)
RECURSIVE generate_nodes(_, _, _)
generate_nodes(data, patterns, run) ==
    IF run > Len(data) THEN <<>>
    ELSE run_nodes(data, patterns[run], run)
             \o generate_nodes(data, patterns, run + 1)

connection(from, to, category) ==
    [from |-> from, to |-> to, connection_category |-> category]

\* the connections of one run (288-346); the nodes of a run are made in
\* the order of their stage_index, so are new_stages
run_connections(all_nodes, pattern, run) ==
    IF pattern.display_all
    THEN LET of_run == SelectSeq(all_nodes, LAMBDA n : n.run = run)
         IN  [k \in 1..(Len(of_run) - 1) |->
                 connection(of_run[k].id, of_run[k + 1].id, "linear")]
    ELSE LET last_copied == pattern.last_copied_stage
             new == pattern.new_stages
             source_node_id ==
                 <<last_copied.source_run, last_copied.source_stage>>
             target_node_id == <<run, new[1].stage>>
             in_node_dict(id) == \E k \in DOMAIN all_nodes : all_nodes[k].id = id
         IN  (IF /\ last_copied # NoCopiedStage /\ new # <<>>
                 /\ in_node_dict(source_node_id)
                 /\ in_node_dict(target_node_id)
              THEN <<connection(source_node_id, target_node_id, "branch")>>
              ELSE <<>>)
             \o [k \in 1..(Len(new) - 1) |->
                    connection(<<run, new[k].stage>>, <<run, new[k + 1].stage>>,
                               "branch_linear")]

\* the loop over sorted_runs that makes the connections (288-346)
RECURSIVE generate_connections(_, _, _)
generate_connections(all_nodes, patterns, run) ==
    IF run > Len(patterns) THEN <<>>
    ELSE run_connections(all_nodes, patterns[run], run)
             \o generate_connections(all_nodes, patterns, run + 1)

\* _analyze_branching_patterns (78-180)
AnalyzeBranchingPatterns ==
    /\ bv_pc = "analyze"
    /\ branch_patterns' =
           [run \in DOMAIN runs_data |-> branch_pattern(runs_data, run)]
    /\ bv_pc' = "nodes"
    /\ UNCHANGED <<runs_data, nodes, connections, earlyVars,
                   serverVars, sqlVars, routeVars, tablesVars, flowVars, runsVars>>

\* _generate_layout, the nodes (220-283)
GenerateNodes ==
    /\ bv_pc = "nodes"
    /\ nodes' = generate_nodes(runs_data, branch_patterns, 1)
    /\ bv_pc' = "connections"
    /\ UNCHANGED <<runs_data, branch_patterns, connections, earlyVars,
                   serverVars, sqlVars, routeVars, tablesVars, flowVars, runsVars>>

\* _generate_layout, the connections (285-346)
GenerateConnections ==
    /\ bv_pc = "connections"
    /\ connections' = generate_connections(nodes, branch_patterns, 1)
    /\ bv_pc' = "return"
    /\ UNCHANGED <<runs_data, branch_patterns, nodes, earlyVars,
                   serverVars, sqlVars, routeVars, tablesVars, flowVars, runsVars>>

BranchNext == AnalyzeBranchingPatterns \/ GenerateNodes \/ GenerateConnections

InitBranch ==
    /\ endpoint = <<>> /\ normalized = <<>> /\ ne_pc = "idle"
    /\ rc_impl = "None" /\ max_retries = 0 /\ retries = 0
    /\ last_error = NoError /\ rc_pc = "idle" /\ attempts = 0 /\ slept = 0
    /\ conn_errors = <<>> /\ conn = 0 /\ raised = NoError
    /\ place_rows = <<>> /\ cts_rows = <<>> /\ place_given = FALSE
    /\ cts_given = FALSE /\ pd_pc = "idle" /\ pd_status = 0
    /\ route_table_data = <<>>
    /\ hash_seed = 0 /\ place_slack = 0 /\ cts_slack = 0 /\ cs_pc = "idle"
    /\ route_slack = 0
    /\ model_place_to_cts = None /\ model_combined_to_route = None
    /\ scaler_place = None /\ scaler_combined = None
    /\ trainings = 0 /\ running = NoCoroutine /\ suspended = <<>>
    /\ output_db = {} /\ train_succeeded = FALSE
    /\ train_failed_partway = FALSE
    /\ runs_data \in UNION {[1..n -> [DOMAIN stage_columns -> StageValues]] :
                               n \in 1..MaxRuns}
    /\ branch_patterns = <<>> /\ nodes = <<>> /\ connections = <<>>
    /\ bv_pc = "analyze"
    /\ query_a = <<>> /\ query_b = <<>> /\ sql_a = <<>> /\ sql_b = <<>>
    /\ sql_pc = "idle"
    /\ req_method = "GET" /\ req_path = <<>> /\ req_accept_html = FALSE
    /\ served_by = "None" /\ route_status = 0 /\ route_pc = "idle"
    /\ db_tables = {} /\ db_unsuitable = {} /\ tables = <<>>
    /\ complete_training_sets = <<>> /\ at_pc = "idle"
    /\ flow_generator = "None" /\ flow_runs = <<>> /\ flow_nodes = <<>>
    /\ flow_connections = <<>> /\ flow_pc = "idle"
    /\ first_run_seed = 0 /\ second_run_seed = 0
    /\ call_place_slack = 0 /\ call_cts_slack = 0
    /\ first_result = 0 /\ repeated_result = 0 /\ second_run_result = 0
    /\ runs_pc = "idle"

SpecBranch == InitBranch /\ [][BranchNext]_vars

(***************************************************************************)
(* The flow layouts of one user: EnhancedLayoutGenerator._analyze_user_runs*)
(* and _generate_user_flow (enhanced_layout_generator.py 485-658) and      *)
(* create_intelligent_fallback_analysis (simple_analyzer.py 150-260).  A   *)
(* run is named "r" followed by its number; a node is named by its run and *)
(* its stage.                                                              *)
(***************************************************************************)
\* the numbers of the runs
RunNumbers == {1, 2, 3, 10, 11}

\* the stages, in the order of stages_config / stage_sequence
FlowStages == <<"place", "cts", "route">>

\* str(n): the decimal digits
RECURSIVE digits(_)
digits(n) == IF n < 10 THEN <<n>> ELSE digits(n \div 10) \o <<n % 10>>

\* "r<a>" < "r<b>" as strings
RECURSIVE digits_less(_, _)
digits_less(a, b) ==
    IF a = <<>> THEN b # <<>>
    ELSE IF b = <<>> THEN FALSE
    ELSE IF Head(a) = Head(b) THEN digits_less(Tail(a), Tail(b))
    ELSE Head(a) < Head(b)

\* sorted(runs.keys()) (simple_analyzer.py 192)
RECURSIVE sorted_run_names(_)
sorted_run_names(runs) ==
    IF runs = {} THEN <<>>
    ELSE LET first == CHOOSE r \in runs :
                          \A o \in runs \ {r} : digits_less(digits(r), digits(o))
         IN  <<first>> \o sorted_run_names(runs \ {first})

\* sorted(runs_data.keys(), key=smart_run_sort_key): by the first number in
\* the name, then by the name (enhanced_layout_generator.py 520-537)
RECURSIVE smart_sorted_runs(_)
smart_sorted_runs(runs) ==
    IF runs = {} THEN <<>>
    ELSE LET first == CHOOSE r \in runs :
                          \A o \in runs \ {r} :
                              \/ r < o
                              \/ r = o /\ digits_less(digits(r), digits(o))
         IN  <<first>> \o smart_sorted_runs(runs \ {first})

\* the stages of a run sorted by their order (511-518; simple_analyzer.py
\* 197-206)
sorted_stages(stages) ==
    SelectSeq(FlowStages, LAMBDA stage : stage \in stages)

\* the nodes of a run, in the order of its stages
flow_run_nodes(stages, run) ==
    [k \in DOMAIN sorted_stages(stages) |->
        [id |-> <<run, sorted_stages(stages)[k]>>, run |-> run,
         stage |-> sorted_stages(stages)[k], stage_order |-> k]]

\* the connections between the stages of a run
within_run_connections(of_run) ==
    [k \in 1..(Len(of_run) - 1) |->
        [from |-> of_run[k].id, to |-> of_run[k + 1].id,
         type |-> "within_run"]]

\* the connection from the run before the k-th one: last stage of the
\* previous run to first stage of this run (641-658; simple_analyzer.py
\* 245-258)
between_runs_connection(runs, order, k) ==
    IF k > 1
    THEN LET previous == flow_run_nodes(runs[order[k - 1]], order[k - 1])
             current == flow_run_nodes(runs[order[k]], order[k])
         IN  <<[from |-> previous[Len(previous)].id, to |-> current[1].id,
                type |-> "between_runs"]>>
    ELSE <<>>

\* the loop over sorted_runs, nodes
RECURSIVE flow_nodes_of(_, _, _)
flow_nodes_of(runs, order, k) ==
    IF k > Len(order) THEN <<>>
    ELSE flow_run_nodes(runs[order[k]], order[k])
             \o flow_nodes_of(runs, order, k + 1)

\* the loop over sorted_runs, connections
RECURSIVE flow_connections_of(_, _, _)
flow_connections_of(runs, order, k) ==
    IF k > Len(order) THEN <<>>
    ELSE within_run_connections(flow_run_nodes(runs[order[k]], order[k]))
             \o between_runs_connection(runs, order, k)
             \o flow_connections_of(runs, order, k + 1)

\* _analyze_user_runs and _generate_user_flow
GenerateUserFlow ==
    /\ flow_pc = "generate" /\ flow_generator = "enhanced_layout_generator"
    /\ LET sorted_runs == smart_sorted_runs(DOMAIN flow_runs)
       IN  /\ flow_nodes' = flow_nodes_of(flow_runs, sorted_runs, 1)
           /\ flow_connections' = flow_connections_of(flow_runs, sorted_runs, 1)
    /\ flow_pc' = "return"
    /\ UNCHANGED <<flow_generator, flow_runs, earlyVars, serverVars, sqlVars, routeVars, tablesVars, branchVars, runsVars>>

\* create_intelligent_fallback_analysis
CreateIntelligentFallbackAnalysis ==
    /\ flow_pc = "generate" /\ flow_generator = "simple_analyzer"
    /\ LET sorted_runs == sorted_run_names(DOMAIN flow_runs)
       IN  /\ flow_nodes' = flow_nodes_of(flow_runs, sorted_runs, 1)
           /\ flow_connections' = flow_connections_of(flow_runs, sorted_runs, 1)
    /\ flow_pc' = "return"
    /\ UNCHANGED <<flow_generator, flow_runs, earlyVars, serverVars, sqlVars, routeVars, tablesVars, branchVars, runsVars>>

FlowNext == GenerateUserFlow \/ CreateIntelligentFallbackAnalysis

InitFlow ==
    /\ endpoint = <<>> /\ normalized = <<>> /\ ne_pc = "idle"
    /\ rc_impl = "None" /\ max_retries = 0 /\ retries = 0
    /\ last_error = NoError /\ rc_pc = "idle" /\ attempts = 0 /\ slept = 0
    /\ conn_errors = <<>> /\ conn = 0 /\ raised = NoError
    /\ place_rows = <<>> /\ cts_rows = <<>> /\ place_given = FALSE
    /\ cts_given = FALSE /\ pd_pc = "idle" /\ pd_status = 0
    /\ route_table_data = <<>>
    /\ hash_seed = 0 /\ place_slack = 0 /\ cts_slack = 0 /\ cs_pc = "idle"
    /\ route_slack = 0
    /\ model_place_to_cts = None /\ model_combined_to_route = None
    /\ scaler_place = None /\ scaler_combined = None
    /\ trainings = 0 /\ running = NoCoroutine /\ suspended = <<>>
    /\ output_db = {} /\ train_succeeded = FALSE
    /\ train_failed_partway = FALSE
    /\ flow_generator \in {"enhanced_layout_generator", "simple_analyzer"}
    /\ flow_runs \in UNION {[names -> (SUBSET {"place", "cts", "route"}) \ {{}}] :
                               names \in {n \in SUBSET RunNumbers :
                                             n # {} /\ Cardinality(n) <= MaxFlowRuns}}
    /\ flow_nodes = <<>> /\ flow_connections = <<>>
    /\ flow_pc = "generate"
    /\ query_a = <<>> /\ query_b = <<>> /\ sql_a = <<>> /\ sql_b = <<>>
    /\ sql_pc = "idle"
    /\ req_method = "GET" /\ req_path = <<>> /\ req_accept_html = FALSE
    /\ served_by = "None" /\ route_status = 0 /\ route_pc = "idle"
    /\ db_tables = {} /\ db_unsuitable = {} /\ tables = <<>>
    /\ complete_training_sets = <<>> /\ at_pc = "idle"
    /\ runs_data = <<>> /\ branch_patterns = <<>> /\ nodes = <<>>
    /\ connections = <<>> /\ bv_pc = "idle"
    /\ first_run_seed = 0 /\ second_run_seed = 0
    /\ call_place_slack = 0 /\ call_cts_slack = 0
    /\ first_result = 0 /\ repeated_result = 0 /\ second_run_result = 0
    /\ runs_pc = "idle"

SpecFlow == InitFlow /\ [][FlowNext]_vars

(***************************************************************************)
(* calculate_synthetic_route_slack (prediction.py 453-526, simple_server.py*)
(* 52-96) called with the same arguments twice in one run of the program   *)
(* and once in another run.  Each run draws the key of its string hash     *)
(* when the interpreter starts; nothing in the repository fixes it.        *)
(***************************************************************************)
\* the first call in the first run
CallInFirstRun ==
    /\ runs_pc = "first"
    /\ first_result' = calculate_synthetic_route_slack(
                           first_run_seed, call_place_slack, call_cts_slack)
    /\ runs_pc' = "repeat"
    /\ UNCHANGED <<first_run_seed, second_run_seed, call_place_slack,
                   call_cts_slack, repeated_result, second_run_result,
                   earlyVars, serverVars, sqlVars, routeVars, tablesVars, branchVars, flowVars>>

\* the same call again in the first run
CallAgainInFirstRun ==
    /\ runs_pc = "repeat"
    /\ repeated_result' = calculate_synthetic_route_slack(
                              first_run_seed, call_place_slack, call_cts_slack)
    /\ runs_pc' = "second"
    /\ UNCHANGED <<first_run_seed, second_run_seed, call_place_slack,
                   call_cts_slack, first_result, second_run_result,
                   earlyVars, serverVars, sqlVars, routeVars, tablesVars, branchVars, flowVars>>

\* the same call in the second run
CallInSecondRun ==
    /\ runs_pc = "second"
    /\ second_run_result' = calculate_synthetic_route_slack(
                                second_run_seed, call_place_slack, call_cts_slack)
    /\ runs_pc' = "done"
    /\ UNCHANGED <<first_run_seed, second_run_seed, call_place_slack,
                   call_cts_slack, first_result, repeated_result, earlyVars,
                   serverVars, sqlVars, routeVars, tablesVars, branchVars, flowVars>>

RunsNext == CallInFirstRun \/ CallAgainInFirstRun \/ CallInSecondRun

InitRuns ==
    /\ endpoint = <<>> /\ normalized = <<>> /\ ne_pc = "idle"
    /\ rc_impl = "None" /\ max_retries = 0 /\ retries = 0
    /\ last_error = NoError /\ rc_pc = "idle" /\ attempts = 0 /\ slept = 0
    /\ conn_errors = <<>> /\ conn = 0 /\ raised = NoError
    /\ place_rows = <<>> /\ cts_rows = <<>> /\ place_given = FALSE
    /\ cts_given = FALSE /\ pd_pc = "idle" /\ pd_status = 0
    /\ route_table_data = <<>>
    /\ hash_seed = 0 /\ place_slack = 0 /\ cts_slack = 0 /\ cs_pc = "idle"
    /\ route_slack = 0
    /\ model_place_to_cts = None /\ model_combined_to_route = None
    /\ scaler_place = None /\ scaler_combined = None
    /\ trainings = 0 /\ running = NoCoroutine /\ suspended = <<>>
    /\ output_db = {} /\ train_succeeded = FALSE
    /\ train_failed_partway = FALSE
    /\ first_run_seed \in 0..MaxHashSeed
    /\ second_run_seed \in 0..MaxHashSeed
    /\ call_place_slack \in SlackSamples
    /\ call_cts_slack \in SlackSamples
    /\ first_result = 0 /\ repeated_result = 0 /\ second_run_result = 0
    /\ runs_pc = "first"
    /\ query_a = <<>> /\ query_b = <<>> /\ sql_a = <<>> /\ sql_b = <<>>
    /\ sql_pc = "idle"
    /\ req_method = "GET" /\ req_path = <<>> /\ req_accept_html = FALSE
    /\ served_by = "None" /\ route_status = 0 /\ route_pc = "idle"
    /\ db_tables = {} /\ db_unsuitable = {} /\ tables = <<>>
    /\ complete_training_sets = <<>> /\ at_pc = "idle"
    /\ runs_data = <<>> /\ branch_patterns = <<>> /\ nodes = <<>>
    /\ connections = <<>> /\ bv_pc = "idle"
    /\ flow_generator = "None" /\ flow_runs = <<>> /\ flow_nodes = <<>>
    /\ flow_connections = <<>> /\ flow_pc = "idle"

SpecRuns == InitRuns /\ [][RunsNext]_vars

RetryNext == ConnectSucceeds \/ ConnectFails \/ RaiseLastError

(***************************************************************************)
(* Specifications.  Each starts one part of the program on its inputs and  *)
(* leaves the other parts idle.                                            *)
(***************************************************************************)
InitNormalize ==
    /\ endpoint \in StringsUpTo(MaxLen)
    /\ normalized = <<>> /\ ne_pc = "call"
    /\ rc_impl = "None" /\ max_retries = 0 /\ retries = 0
    /\ last_error = NoError /\ rc_pc = "idle" /\ attempts = 0 /\ slept = 0
    /\ conn_errors = <<>> /\ conn = 0 /\ raised = NoError
    /\ place_rows = <<>> /\ cts_rows = <<>> /\ place_given = FALSE
    /\ cts_given = FALSE /\ pd_pc = "idle" /\ pd_status = 0
    /\ route_table_data = <<>>
    /\ hash_seed = 0 /\ place_slack = 0 /\ cts_slack = 0 /\ cs_pc = "idle"
    /\ route_slack = 0
    /\ model_place_to_cts = None /\ model_combined_to_route = None
    /\ scaler_place = None /\ scaler_combined = None
    /\ trainings = 0 /\ running = NoCoroutine /\ suspended = <<>>
    /\ output_db = {} /\ train_succeeded = FALSE
    /\ train_failed_partway = FALSE
    /\ query_a = <<>> /\ query_b = <<>> /\ sql_a = <<>> /\ sql_b = <<>>
    /\ sql_pc = "idle"
    /\ req_method = "GET" /\ req_path = <<>> /\ req_accept_html = FALSE
    /\ served_by = "None" /\ route_status = 0 /\ route_pc = "idle"
    /\ db_tables = {} /\ db_unsuitable = {} /\ tables = <<>>
    /\ complete_training_sets = <<>> /\ at_pc = "idle"
    /\ runs_data = <<>> /\ branch_patterns = <<>> /\ nodes = <<>>
    /\ connections = <<>> /\ bv_pc = "idle"
    /\ flow_generator = "None" /\ flow_runs = <<>> /\ flow_nodes = <<>>
    /\ flow_connections = <<>> /\ flow_pc = "idle"
    /\ first_run_seed = 0 /\ second_run_seed = 0
    /\ call_place_slack = 0 /\ call_cts_slack = 0
    /\ first_result = 0 /\ repeated_result = 0 /\ second_run_result = 0
    /\ runs_pc = "idle"

InitRetry ==
    /\ endpoint = <<>> /\ normalized = <<>> /\ ne_pc = "idle"
    /\ rc_impl \in RetryImpls
    /\ max_retries \in 1..MaxRetriesArg
    /\ retries = 0
    /\ last_error = NoError /\ rc_pc = "loop" /\ attempts = 0 /\ slept = 0
    /\ conn_errors = <<>> /\ conn = 0 /\ raised = NoError
    /\ place_rows = <<>> /\ cts_rows = <<>> /\ place_given = FALSE
    /\ cts_given = FALSE /\ pd_pc = "idle" /\ pd_status = 0
    /\ route_table_data = <<>>
    /\ hash_seed = 0 /\ place_slack = 0 /\ cts_slack = 0 /\ cs_pc = "idle"
    /\ route_slack = 0
    /\ model_place_to_cts = None /\ model_combined_to_route = None
    /\ scaler_place = None /\ scaler_combined = None
    /\ trainings = 0 /\ running = NoCoroutine /\ suspended = <<>>
    /\ output_db = {} /\ train_succeeded = FALSE
    /\ train_failed_partway = FALSE
    /\ query_a = <<>> /\ query_b = <<>> /\ sql_a = <<>> /\ sql_b = <<>>
    /\ sql_pc = "idle"
    /\ req_method = "GET" /\ req_path = <<>> /\ req_accept_html = FALSE
    /\ served_by = "None" /\ route_status = 0 /\ route_pc = "idle"
    /\ db_tables = {} /\ db_unsuitable = {} /\ tables = <<>>
    /\ complete_training_sets = <<>> /\ at_pc = "idle"
    /\ runs_data = <<>> /\ branch_patterns = <<>> /\ nodes = <<>>
    /\ connections = <<>> /\ bv_pc = "idle"
    /\ flow_generator = "None" /\ flow_runs = <<>> /\ flow_nodes = <<>>
    /\ flow_connections = <<>> /\ flow_pc = "idle"
    /\ first_run_seed = 0 /\ second_run_seed = 0
    /\ call_place_slack = 0 /\ call_cts_slack = 0
    /\ first_result = 0 /\ repeated_result = 0 /\ second_run_result = 0
    /\ runs_pc = "idle"

\* a request that passed the checks of lines 591-610 names a table or both
InitData ==
    /\ endpoint = <<>> /\ normalized = <<>> /\ ne_pc = "idle"
    /\ rc_impl = "None" /\ max_retries = 0 /\ retries = 0
    /\ last_error = NoError /\ rc_pc = "idle" /\ attempts = 0 /\ slept = 0
    /\ conn_errors = <<>> /\ conn = 0 /\ raised = NoError
    /\ place_given \in BOOLEAN
    /\ cts_given \in BOOLEAN
    /\ place_given \/ cts_given
    /\ place_rows \in IF place_given THEN SeqsUpTo(TableRows, MaxRows) ELSE {<<>>}
    /\ cts_rows \in IF cts_given THEN SeqsUpTo(TableRows, MaxRows) ELSE {<<>>}
    /\ pd_pc = "call" /\ pd_status = 0
    /\ route_table_data = <<>>
    /\ hash_seed = 0 /\ place_slack = 0 /\ cts_slack = 0 /\ cs_pc = "idle"
    /\ route_slack = 0
    /\ model_place_to_cts = None /\ model_combined_to_route = None
    /\ scaler_place = None /\ scaler_combined = None
    /\ trainings = 0 /\ running = NoCoroutine /\ suspended = <<>>
    /\ output_db = {} /\ train_succeeded = FALSE
    /\ train_failed_partway = FALSE
    /\ query_a = <<>> /\ query_b = <<>> /\ sql_a = <<>> /\ sql_b = <<>>
    /\ sql_pc = "idle"
    /\ req_method = "GET" /\ req_path = <<>> /\ req_accept_html = FALSE
    /\ served_by = "None" /\ route_status = 0 /\ route_pc = "idle"
    /\ db_tables = {} /\ db_unsuitable = {} /\ tables = <<>>
    /\ complete_training_sets = <<>> /\ at_pc = "idle"
    /\ runs_data = <<>> /\ branch_patterns = <<>> /\ nodes = <<>>
    /\ connections = <<>> /\ bv_pc = "idle"
    /\ flow_generator = "None" /\ flow_runs = <<>> /\ flow_nodes = <<>>
    /\ flow_connections = <<>> /\ flow_pc = "idle"
    /\ first_run_seed = 0 /\ second_run_seed = 0
    /\ call_place_slack = 0 /\ call_cts_slack = 0
    /\ first_result = 0 /\ repeated_result = 0 /\ second_run_result = 0
    /\ runs_pc = "idle"

InitSynthetic ==
    /\ endpoint = <<>> /\ normalized = <<>> /\ ne_pc = "idle"
    /\ rc_impl = "None" /\ max_retries = 0 /\ retries = 0
    /\ last_error = NoError /\ rc_pc = "idle" /\ attempts = 0 /\ slept = 0
    /\ conn_errors = <<>> /\ conn = 0 /\ raised = NoError
    /\ place_rows = <<>> /\ cts_rows = <<>> /\ place_given = FALSE
    /\ cts_given = FALSE /\ pd_pc = "idle" /\ pd_status = 0
    /\ route_table_data = <<>>
    /\ hash_seed \in 0..MaxHashSeed
    /\ place_slack \in SlackSamples
    /\ cts_slack \in SlackSamples
    /\ cs_pc = "call"
    /\ route_slack = 0
    /\ model_place_to_cts = None /\ model_combined_to_route = None
    /\ scaler_place = None /\ scaler_combined = None
    /\ trainings = 0 /\ running = NoCoroutine /\ suspended = <<>>
    /\ output_db = {} /\ train_succeeded = FALSE
    /\ train_failed_partway = FALSE
    /\ query_a = <<>> /\ query_b = <<>> /\ sql_a = <<>> /\ sql_b = <<>>
    /\ sql_pc = "idle"
    /\ req_method = "GET" /\ req_path = <<>> /\ req_accept_html = FALSE
    /\ served_by = "None" /\ route_status = 0 /\ route_pc = "idle"
    /\ db_tables = {} /\ db_unsuitable = {} /\ tables = <<>>
    /\ complete_training_sets = <<>> /\ at_pc = "idle"
    /\ runs_data = <<>> /\ branch_patterns = <<>> /\ nodes = <<>>
    /\ connections = <<>> /\ bv_pc = "idle"
    /\ flow_generator = "None" /\ flow_runs = <<>> /\ flow_nodes = <<>>
    /\ flow_connections = <<>> /\ flow_pc = "idle"
    /\ first_run_seed = 0 /\ second_run_seed = 0
    /\ call_place_slack = 0 /\ call_cts_slack = 0
    /\ first_result = 0 /\ repeated_result = 0 /\ second_run_result = 0
    /\ runs_pc = "idle"

\* the server after import: the globals are None (112-121)
Init ==
    /\ endpoint = <<>> /\ normalized = <<>> /\ ne_pc = "idle"
    /\ rc_impl = "None" /\ max_retries = 0 /\ retries = 0
    /\ last_error = NoError /\ rc_pc = "idle" /\ attempts = 0 /\ slept = 0
    /\ conn_errors = <<>> /\ conn = 0 /\ raised = NoError
    /\ place_rows = <<>> /\ cts_rows = <<>> /\ place_given = FALSE
    /\ cts_given = FALSE /\ pd_pc = "idle" /\ pd_status = 0
    /\ route_table_data = <<>>
    /\ hash_seed = 0 /\ place_slack = 0 /\ cts_slack = 0 /\ cs_pc = "idle"
    /\ route_slack = 0
    /\ model_place_to_cts = None /\ model_combined_to_route = None
    /\ scaler_place = None /\ scaler_combined = None
    /\ trainings = 0 /\ running = NoCoroutine /\ suspended = <<>>
    /\ output_db = {} /\ train_succeeded = FALSE
    /\ train_failed_partway = FALSE
    /\ query_a = <<>> /\ query_b = <<>> /\ sql_a = <<>> /\ sql_b = <<>>
    /\ sql_pc = "idle"
    /\ req_method = "GET" /\ req_path = <<>> /\ req_accept_html = FALSE
    /\ served_by = "None" /\ route_status = 0 /\ route_pc = "idle"
    /\ db_tables = {} /\ db_unsuitable = {} /\ tables = <<>>
    /\ complete_training_sets = <<>> /\ at_pc = "idle"
    /\ runs_data = <<>> /\ branch_patterns = <<>> /\ nodes = <<>>
    /\ connections = <<>> /\ bv_pc = "idle"
    /\ flow_generator = "None" /\ flow_runs = <<>> /\ flow_nodes = <<>>
    /\ flow_connections = <<>> /\ flow_pc = "idle"
    /\ first_run_seed = 0 /\ second_run_seed = 0
    /\ call_place_slack = 0 /\ call_cts_slack = 0
    /\ first_result = 0 /\ repeated_result = 0 /\ second_run_result = 0
    /\ runs_pc = "idle"

Next ==
    \/ ApiTrain \/ SlackPredictionTrain \/ TrainModelPost \/ Suspend
    \/ Resume \/ TrainModelPostBody
    \/ TrainFetch \/ TrainScalerPlace \/ TrainModelPlace \/ TrainFitPlace
    \/ TrainScalerCombined \/ TrainModelCombined \/ TrainFitCombined
    \/ Predict \/ PredictFetch \/ PredictCompute \/ PredictStore
    \/ GetAllResults \/ GetResultById \/ FilterResults
    \/ GetResultsStatistics \/ DownloadResults \/ GetAvailableTables
    \/ SetupDatabase \/ ExecuteQueryEndpoint \/ Send

Spec == Init /\ [][Next]_vars

SpecNormalize == InitNormalize /\ [][NormalizeEndpoint]_vars

SpecRetry == InitRetry /\ [][RetryNext]_vars

SpecData == InitData /\ [][PredictData]_vars

SpecSynthetic == InitSynthetic /\ [][CalculateSyntheticRouteSlack]_vars

\* positions of the separators of a string
Slashes(s) == {i \in 1..Len(s) : s[i] = "/"}

\* C5: a string with at least two '/'-separated segments (one separator or
\* more) is mapped to what follows its second-to-last separator, the whole
\* string when it has only one: its last two segments joined by '/'.  A string
\* with fewer than two segments (no separator) is returned unchanged.
NormalizeLastTwoSegments ==
    ne_pc = "return" =>
        LET sl == Slashes(endpoint)
            start == IF Cardinality(sl) >= 2
                     THEN (CHOOSE j \in sl : Cardinality({k \in sl : k > j}) = 1) + 1
                     ELSE 1
        IN  /\ normalized = SubSeq(endpoint, start, Len(endpoint))
            /\ sl = {} => normalized = endpoint
            /\ sl # {} => Cardinality(Slashes(normalized)) = 1

\* a path of three segments has been cut to its last two
NormalizeCutsPath ==
    /\ ne_pc = "return"
    /\ Cardinality(Slashes(endpoint)) = 2
    /\ normalized # endpoint
    /\ Len(normalized) >= 3

\* C10: the retry loop makes at most max_retries connection attempts, sleeps
\* the fixed delay once after each failed attempt, returns the connection of
\* the first attempt that succeeds without trying again, and once
\* max_retries attempts have failed raises the error of the last of them.
RetryIsBounded ==
    /\ attempts <= max_retries
    /\ slept = RetryDelay * Len(conn_errors)
    /\ rc_pc = "returned" =>
          /\ conn = attempts
          /\ attempts = Len(conn_errors) + 1
    /\ rc_pc = "raised" =>
          /\ attempts = max_retries
          /\ Len(conn_errors) = max_retries
          /\ raised = conn_errors[max_retries]
          /\ conn = 0
    /\ rc_pc = "loop" =>
          /\ attempts = Len(conn_errors)
          /\ (ENABLED ConnectFails) \/ (ENABLED RaiseLastError)

\* three attempts failed, the last with another error than the first, and the
\* last one's error was raised
RetryGaveUp ==
    /\ rc_pc = "raised"
    /\ max_retries = 3
    /\ attempts = 3
    /\ conn_errors[1] # conn_errors[3]
    /\ raised = conn_errors[3]

\* the slack values a table stores for an endpoint: those of its rows with
\* that very endpoint, or, when it has none, of its rows with the same
\* normalized endpoint
StoredSlacks(tbl, ep) ==
    LET exact == {i \in DOMAIN tbl : tbl[i].endpoint = ep}
        alike == {i \in DOMAIN tbl :
                     normalize_endpoint(tbl[i].endpoint) = normalize_endpoint(ep)}
    IN  {tbl[i].slack : i \in IF exact # {} THEN exact ELSE alike}

\* C4: in every row predict returns, place_slack is a slack value the place
\* table stores for the row's endpoint when the request names a place table,
\* and cts_slack is one the CTS table stores for it when the request names a
\* CTS table.
OriginalSlacksPreserved ==
    pd_pc = "return" =>
        \A i \in DOMAIN route_table_data :
            LET row == route_table_data[i]
            IN  /\ place_given => row.place_slack \in StoredSlacks(place_rows, row.endpoint)
                /\ cts_given => row.cts_slack \in StoredSlacks(cts_rows, row.endpoint)

\* a response of two rows from a place table alone: its CTS slack values were
\* generated, its place slack values are the stored ones
PlaceOnlyPredicted ==
    /\ pd_pc = "return"
    /\ place_given /\ ~cts_given
    /\ Len(route_table_data) = 2
    /\ \A i \in DOMAIN route_table_data :
          route_table_data[i].cts_slack # route_table_data[i].place_slack

\* C6: the value r that calculate_synthetic_route_slack returns for
\* place_slack and cts_slack satisfies
\* min(place_slack, cts_slack) - 0.025 <= r <= max(place_slack, cts_slack) + 0.012.
SyntheticSlackWithinBounds ==
    cs_pc = "return" =>
        /\ (Min(place_slack, cts_slack) - 25) * 10000 <= route_slack
        /\ route_slack <= (Max(place_slack, cts_slack) + 12) * 10000

\* a result for two slack values more than 0.1 apart that is better than the
\* worse of them
SyntheticSlackImproves ==
    /\ cs_pc = "return"
    /\ Abs(place_slack - cts_slack) > 100
    /\ route_slack > Min(place_slack, cts_slack) * 10000
    /\ route_slack < Max(place_slack, cts_slack) * 10000

(***************************************************************************)
(* Properties of the server, stated over Spec.                             *)
(***************************************************************************)
\* the letters of 'route' in either case
RouteLetters == <<{"r", "R"}, {"o", "O"}, {"u", "U"}, {"t", "T"}, {"e", "E"}>>

\* the table name contains 'route', whatever the case of its letters
MentionsRoute(table) ==
    \E i \in 0..(Len(table) - 5) :
        \A k \in 1..5 : table[i + k] \in RouteLetters[k]

\* the request of a predict coroutine passes the checks of its input: a table
\* is given, none is a route table, and the two differ
PassesInputValidation(c) ==
    /\ c.place_table # NoTable \/ c.cts_table # NoTable
    /\ ~MentionsRoute(c.place_table) /\ ~MentionsRoute(c.cts_table)
    /\ c.place_table # c.cts_table

\* C1: a predict request that passes input validation is answered with HTTP
\* 400 'Models not trained yet. Please train first.' unless an earlier train
\* request has completed successfully.
PredictNeedsSuccessfulTraining ==
    (/\ running.handler = "predict"
     /\ PassesInputValidation(running)
     /\ ~train_succeeded)
    => /\ running.pc = "respond"
       /\ running.status_code = 400
       /\ running.detail = "Models not trained yet. Please train first."

TrainHandlers == {"api_train", "slack_prediction_train", "train_model_post"}

\* C2: on each of the three train entry points a request that omits any of
\* the place, cts and route tables is answered with HTTP 400 and starts no
\* training.
TrainNeedsThreeTables ==
    (/\ running.handler \in TrainHandlers
     /\ running.pc # "read_body"
     /\ \/ running.place_table = NoTable
        \/ running.cts_table = NoTable
        \/ running.route_table = NoTable)
    => /\ running.pc = "respond"
       /\ running.status_code = 400
       /\ running.training = 0

\* the route model takes part in a prediction when it and its scaler are set
UsesRouteModel(u) ==
    u.model_combined_to_route # None /\ u.scaler_combined # None

\* the objects a prediction with the globals u is computed with
UsedObjects(u) ==
    {u.scaler_place, u.model_place_to_cts}
        \cup (IF UsesRouteModel(u)
              THEN {u.scaler_combined, u.model_combined_to_route} ELSE {})

\* a scaler and a model of different trainings, or a model installed and not
\* fitted
Mixed(u) ==
    \/ \E a, b \in UsedObjects(u) : a.training # b.training
    \/ \E a \in UsedObjects(u) : ~a.fitted

\* the running coroutine is a predict that has computed its predictions
ComputedPrediction ==
    /\ running.handler = "predict"
    /\ running.pc \in {"store", "respond"}
    /\ running.used # NoneUsed

RouteTableRejectedFirst ==
    (/\ running.handler = "predict"
     /\ MentionsRoute(running.place_table) \/ MentionsRoute(running.cts_table))
    => /\ running.pc = "respond"
       /\ running.status_code = 400
       /\ ~running.tables_read
       /\ ~running.model_consulted

\* a route table given as the cts table, next to a place table, is rejected
\* after a training has succeeded
RouteTableRejectedWhenTrained ==
    /\ running.handler = "predict"
    /\ running.place_table = <<"p", "l">>
    /\ MentionsRoute(running.cts_table)
    /\ running.status_code = 400
    /\ train_succeeded
    /\ model_place_to_cts # None

\* C8: a predict response with a non-null output_table_name names a table
\* that exists in the output database and holds one record per returned
\* prediction; when storage fails the name is null and the message says
\* 'storage failed'.
StorageReportedTruthfully ==
    (/\ running.handler = "predict"
     /\ running.pc = "respond"
     /\ running.status_code = 200)
    => /\ running.prediction_table_name # NoTable
            => \E t \in output_db :
                   /\ t.table_name = running.prediction_table_name
                   /\ t.records = running.rows
       /\ ~running.db_storage_success
            => /\ running.prediction_table_name = NoTable
               /\ running.stored_in = <<"storage failed">>

\* C9: a failure inside a REST handler is reported as HTTP 400 or 500; none
\* is answered with a success status.
FailuresReportedAsErrors ==
    (running.pc = "respond" /\ running.failed)
    => running.status_code \in {400, 500}

\* C17: in every output row of predict, the reported place_slack and
\* cts_slack are the values from which that row's predicted_route_slack was
\* computed, also when a supplied table contains several rows with the same
\* endpoint.
ReportedSlacksAreThePredictionInputs ==
    pd_pc = "return" =>
        \A i \in DOMAIN route_table_data :
            route_table_data[i].computed_from =
                <<route_table_data[i].place_slack, route_table_data[i].cts_slack>>

\* the normalized endpoints that occur in both tables as predict holds them
\* (a table the request does not name has the endpoints of the other)
CommonNormalizedEndpoints ==
    LET of(tbl) == {normalize_endpoint(tbl[i].endpoint) : i \in DOMAIN tbl}
    IN  IF place_given /\ cts_given THEN of(place_rows) \cap of(cts_rows)
        ELSE IF place_given THEN of(place_rows)
        ELSE of(cts_rows)

SqlIndependentOfTermOrder ==
    sql_pc = "return" => sql_a = sql_b

\* C12: GET /results/download, /slack-prediction/results/download and
\* /slack-prediction/results/download_results are served by
\* download_results and GET /results/stats by the statistics handler, never
\* by an earlier-registered parameterised route.
DocumentedUrlsReachTheirHandler ==
    (route_pc # "request" /\ req_method = "GET") =>
        /\ req_path \in {<<"results", "download">>,
                         <<"slack-prediction", "results", "download">>,
                         <<"slack-prediction", "results", "download_results">>}
               => served_by = "download_results"
        /\ req_path = <<"results", "stats">>
               => served_by = "get_results_statistics"

\* C13: if the database holds tables <prefix>_place_csv, <prefix>_cts_csv
\* and <prefix>_route_csv that each have the endpoint, slack and all feature
\* columns, GET /available-tables lists a complete training set for that
\* prefix whose place_table, cts_table and route_table are exactly those
\* three tables.
NewTableSetDetected ==
    at_pc = "return" =>
        \A prefix \in {<<"reg">>, <<"old">>, <<"reg", "old">>} :
            LET place == prefix \o <<"place", "csv">>
                cts == prefix \o <<"cts", "csv">>
                route == prefix \o <<"route", "csv">>
            IN  {place, cts, route} \subseteq (db_tables \ db_unsuitable) =>
                    \E i \in DOMAIN complete_training_sets :
                        complete_training_sets[i] =
                            [group_name |-> prefix, place_table |-> place,
                             cts_table |-> cts, route_table |-> route]

(***************************************************************************)
(* Properties of the branch view, stated over SpecBranch.                  *)
(***************************************************************************)
\* the value occurs in some stage of some run before the given one
OccursEarlier(value, run) ==
    \E p \in 1..(run - 1), ps \in DOMAIN stage_columns :
        runs_data[p][ps] = value

\* the stages of a run that hold a value of an earlier run
CopiedOf(run) ==
    {s \in DOMAIN stage_columns :
        runs_data[run][s] # "" /\ OccursEarlier(runs_data[run][s], run)}

\* the stages of a run that hold a value of no earlier run
NewOf(run) ==
    {s \in DOMAIN stage_columns :
        runs_data[run][s] # "" /\ ~OccursEarlier(runs_data[run][s], run)}

BranchConnectionsTo(run) ==
    {k \in DOMAIN connections :
        /\ connections[k].connection_category = "branch"
        /\ connections[k].to[1] = run}

HasNode(id) == \E k \in DOMAIN nodes : nodes[k].id = id

\* C14: the branch connection of a run that copies stage values from
\* earlier runs goes from the node that is the source of its last copied
\* stage (the copied stage with the highest column index) to the node of
\* its first new stage (the non-empty, non-copied stage with the lowest
\* column index).
BranchFromLastCopiedToFirstNew ==
    bv_pc = "return" =>
        \A run \in DOMAIN runs_data :
            (CopiedOf(run) # {} /\ NewOf(run) # {}) =>
                LET last == CHOOSE s \in CopiedOf(run) :
                                \A o \in CopiedOf(run) : s >= o
                    first == CHOOSE s \in NewOf(run) :
                                 \A o \in NewOf(run) : s <= o
                IN  /\ Cardinality(BranchConnectionsTo(run)) = 1
                    /\ \A k \in BranchConnectionsTo(run) :
                          /\ connections[k].to = <<run, first>>
                          /\ HasNode(connections[k].to)
                          /\ HasNode(connections[k].from)
                          /\ connections[k].from[1] < run
                          /\ runs_data[connections[k].from[1]]
                                      [connections[k].from[2]]
                                 = runs_data[run][last]

\* a run with two copied stages of different values and a new stage has
\* its branch connection
BranchDrawn ==
    /\ bv_pc = "return"
    /\ \E run \in DOMAIN runs_data :
          /\ \E s, t \in CopiedOf(run) : runs_data[run][s] # runs_data[run][t]
          /\ NewOf(run) # {}
          /\ BranchConnectionsTo(run) # {}

\* C15: there is a node for (run, stage) exactly when the stage value is
\* non-empty and either the run is the first run, or the run copies no
\* value from any earlier run, or that stage's value does not occur in any
\* stage of any earlier run; copied stages of a copying run are never
\* displayed.
NodeExactlyForDisplayedStages ==
    bv_pc \in {"connections", "return"} =>
        \A run \in DOMAIN runs_data, s \in DOMAIN stage_columns :
            LET displayed ==
                    /\ runs_data[run][s] # ""
                    /\ \/ run = 1
                       \/ CopiedOf(run) = {}
                       \/ ~OccursEarlier(runs_data[run][s], run)
                of_stage == {k \in DOMAIN nodes : nodes[k].run = run
                                                  /\ nodes[k].stage = s}
            IN  /\ Cardinality(of_stage) = (IF displayed THEN 1 ELSE 0)
                /\ \A k \in of_stage : nodes[k].label = runs_data[run][s]
                /\ (CopiedOf(run) # {} /\ s \in CopiedOf(run) /\ run # 1)
                       => of_stage = {}

\* a copying run shows a new stage and hides a copied one
CopiedStageHidden ==
    /\ bv_pc = "return"
    /\ \E run \in DOMAIN runs_data :
          /\ CopiedOf(run) # {}
          /\ \E s \in NewOf(run) : HasNode(<<run, s>>)
          /\ \E s \in CopiedOf(run) : ~HasNode(<<run, s>>)

\* C16: in a generated flow layout a user's runs are chained in sequential
\* run order: for every pair of consecutive runs there is exactly one
\* run-to-run connection, from the last stage node of the earlier run to
\* the first stage node of the later run.
RunsChainedInRunOrder ==
    flow_pc = "return" =>
        LET runs == DOMAIN flow_runs
            between == {k \in DOMAIN flow_connections :
                           flow_connections[k].type = "between_runs"}
            consecutive == {p \in runs \X runs :
                               /\ p[1] < p[2]
                               /\ ~\E r \in runs : p[1] < r /\ r < p[2]}
            last_stage(r) ==
                CHOOSE s \in flow_runs[r] :
                    \A o \in flow_runs[r] :
                        \A i, j \in DOMAIN FlowStages :
                            (FlowStages[i] = s /\ FlowStages[j] = o) => i >= j
            first_stage(r) ==
                CHOOSE s \in flow_runs[r] :
                    \A o \in flow_runs[r] :
                        \A i, j \in DOMAIN FlowStages :
                            (FlowStages[i] = s /\ FlowStages[j] = o) => i <= j
        IN  /\ Cardinality(between) = Cardinality(consecutive)
            /\ \A p \in consecutive :
                  \E k \in between :
                      /\ flow_connections[k].from = <<p[1], last_stage(p[1])>>
                      /\ flow_connections[k].to = <<p[2], first_stage(p[2])>>

\* C19: calculate_synthetic_route_slack is deterministic: equal
\* (place_slack, cts_slack) inputs give the same output, both within one
\* server process and across separate runs of the program.
SyntheticSlackDeterministic ==
    /\ runs_pc \in {"second", "done"} => repeated_result = first_result
    /\ runs_pc = "done" => second_run_result = first_result

====
